---- MODULE Spec2Model ----
(***************************************************************************)
(* Server side of the Steamworks minimal client/server example: the        *)
(* connection registry m_mapClientData, the per-connection authentication  *)
(* state and the three handlers that change it                             *)
(* (OnSteamNetConnectionStatusChanged, PollNetwork/ProcessMessageFromClient*)
(* and OnValidateAuthTicketResponse), plus BroadcastMessage and            *)
(* ShutdownSteam.                                                          *)
(*                                                                         *)
(* Every handler takes m_mutexClientData for its whole registry access     *)
(* (std::lock_guard at the top of the callbacks, around each polled        *)
(* message in PollNetwork, around the loop of ShutdownSteam), so one       *)
(* handler run is one step.  The transport (ISteamNetworkingSockets) and   *)
(* the identity service (ISteamGameServer) are the environment: their      *)
(* notifications and result codes are the inputs of the steps, and every   *)
(* call the server makes on them is recorded, in call order, in `out`.     *)
(* Where the lock is taken and released, step by step and thread by        *)
(* thread, is the subject of LockSpec, and of LockFairSpec for what the    *)
(* threads eventually do.                                                  *)
(*                                                                         *)
(* The client (Client in client.cpp) is one record, `client`, with the     *)
(* operations client_main calls on it and the callbacks it receives; the   *)
(* calls of its last operation are in `clientOut`.  ClientSpec explores    *)
(* it over tickets of several sizes, CloseSpec explores the closing paths  *)
(* of one server connection and of the client side by side.                *)
(*                                                                         *)
(* SessionSpec puts the client and the server on one wire (`wire`): the    *)
(* port the client dialled, the messages in flight in each direction and   *)
(* the notifications the transport owes, with the fairness of the two      *)
(* programs' loops and of the transport's deliveries.                      *)
(***************************************************************************)
EXTENDS Integers, Sequences, FiniteSets, TLC

\* ------------------------------------------------------------------ bounds

\* Connections whose events are explored.
NumActive == 2

\* The history counter ticketFrames saturates here.
MaxTicketFrames == 2

\* ------------------------------------------------------- program constants

\* if (m_mapClientData.size() >= 100)
MaxClients == 100

\* sizeof(uint32)
sizeofUint32 == 4

\* constexpr uint16 DEFAULT_SERVER_PORT = 1234
DEFAULT_SERVER_PORT == 1234

\* const uint16 SERVER_PORT = 42000
SERVER_PORT == 42000

\* CSteamID() : the default-constructed identity, for which IsValid() is false.
InvalidSteamID == 0

\* ------------------------------------------------------------ connections

\* Connections already accepted when the exploration starts: they fill the
\* registry up to one free slot.  They are registered and still Connecting
\* at the transport (no Connected notification yet), but for the last of
\* them, which has connected and sent its ticket already; no notification
\* or message of theirs is explored.
NumBackground == MaxClients - 1

Background == 1 .. NumBackground

Active == (NumBackground + 1) .. (NumBackground + NumActive)

Conns == Background \cup Active

\* The background connection that has sent its ticket.
Peer == NumBackground

\* Identities the transport and the identity service report.
SteamIDs == {1, 2}

\* The identity of Peer, for which the identity service has not answered.
PeerSteamID == 3

\* Identities the transport reports.
Identities == SteamIDs \cup {PeerSteamID}

\* ESteamNetworkingConnectionState values the server sees.
NetStates == {"None", "Connecting", "Connected", "ClosedByPeer", "ProblemDetectedLocally"}

\* m_hListenSocket, and a listen socket that is not the server's.
m_hListenSocket == "ours"

ListenSockets == {"ours", "other"}

\* EResult of AcceptConnection.
EResults == {"k_EResultOK", "k_EResultFail"}

\* EAuthSessionResponse of the validation callback.
AuthSessionResponses == {"k_EAuthSessionResponseOK", "k_EAuthSessionResponseUserNotConnectedToSteam"}

\* "HELLO_SERVER" as bytes.
HELLO_SERVER == <<72, 69, 76, 76, 79, 95, 83, 69, 82, 86, 69, 82>>

\* Inbound payloads: two well-formed ticket frames, frames whose declared
\* length is wrong in either direction, an empty ticket, a header whose
\* bytes are in the wrong order, and an application message.
Frames ==
    { <<0, 0, 0, 1, 7>>,
      <<0, 0, 0, 2, 7, 8>>,
      <<0, 0, 0, 2, 7>>,
      <<0, 0, 0, 0, 7>>,
      <<0, 0, 0, 0>>,
      <<1, 0, 0, 0, 7>>,
      HELLO_SERVER }

\* ------------------------------------------------------------------- state

VARIABLES
    m_bRunning,        \* std::atomic<bool> m_bRunning
    m_mapClientData,   \* hConn -> ClientConnectionData_t
    net,               \* hConn -> state and listen socket at the transport
    pollGroup,         \* connections in m_hPollGroup
    authTrace,         \* explored hConn -> the AuthStates its record went through
    ticketFrames,      \* explored hConn -> ticket frames accepted for its record
    out,               \* calls and log lines of the last handler, in order
    client,            \* the members of Client
    clientNet,         \* client handle -> state of the connection at the transport
    clientOut,         \* calls and log lines of the last client operation, in order
    m_mutexClientData, \* the thread that holds std::mutex m_mutexClientData, or "free"
    pc,                \* server thread -> where it is in its code
    batch,             \* messages of the polled batch not yet processed
    wire               \* the link between the client and the server at the transport

\* The client: its members, its connection, its calls.
clientVars == <<client, clientNet, clientOut>>

\* The server's threads and their lock.
lockVars == <<m_mutexClientData, pc, batch>>

vars == <<m_bRunning, m_mapClientData, net, pollGroup, authTrace, ticketFrames, out,
          client, clientNet, clientOut, m_mutexClientData, pc, batch, wire>>

\* ClientConnectionData_t() : m_eAuthState(AUTH_PENDING), default m_steamID,
\* empty m_authTicketData.
ClientConnectionData_t ==
    [m_steamID |-> InvalidSteamID, m_eAuthState |-> "AUTH_PENDING", m_authTicketData |-> <<>>]

\* A connection handle that names no connection at the transport.
NoConnection == [m_eState |-> "None", m_hListenSocket |-> "none"]

\* ------------------------------------------------------ recorded effects

SendMessageToClient(hConn, message) == [op |-> "SendMessageToConnection", conn |-> hConn, arg |-> message]

CloseConnection(hConn, reason) == [op |-> "CloseConnection", conn |-> hConn, arg |-> reason]

AcceptConnection(hConn) == [op |-> "AcceptConnection", conn |-> hConn, arg |-> ""]

SetConnectionPollGroup(hConn) == [op |-> "SetConnectionPollGroup", conn |-> hConn, arg |-> ""]

EndAuthSession(hConn, steamID) == [op |-> "EndAuthSession", conn |-> hConn, arg |-> steamID]

Log(hConn, line) == [op |-> "spdlog", conn |-> hConn, arg |-> line]

\* ---------------------------------------------------------------- helpers

\* std::unordered_map::erase
Erase(map, hConn) == [d \in DOMAIN map \ {hConn} |-> map[d]]

\* m_mapClientData[hConn] = newData
Insert(map, hConn, data) == [d \in DOMAIN map \cup {hConn} |-> IF d = hConn THEN data ELSE map[d]]

\* Appends an AuthState to a trace unless the record is already in it.
Step(trace, state) ==
    IF trace # <<>> /\ trace[Len(trace)] = state THEN trace ELSE Append(trace, state)

\* The connections a handler closed: the transport forgets their handles.
ClosedBy(effects) == {effects[i].conn : i \in {j \in DOMAIN effects : effects[j].op = "CloseConnection"}}

\* The connections a handler added to the poll group.
JoinedBy(effects) == {effects[i].conn : i \in {j \in DOMAIN effects : effects[j].op = "SetConnectionPollGroup"}}

\* The AuthStates the record of hConn went through, extended by the registry map.
TraceAfter(map, hConn) ==
    IF hConn \notin DOMAIN map THEN <<>>
    ELSE IF hConn \notin DOMAIN m_mapClientData THEN <<map[hConn].m_eAuthState>>
    ELSE Step(authTrace[hConn], map[hConn].m_eAuthState)

\* ticketFrames[hConn] after a handler that leaves the registry map and
\* accepted a ticket frame of hConn or not.
FramesAfter(map, hConn, accepted) ==
    IF hConn \notin DOMAIN map \/ hConn \notin DOMAIN m_mapClientData THEN 0
    ELSE IF accepted /\ ticketFrames[hConn] < MaxTicketFrames THEN ticketFrames[hConn] + 1
    ELSE ticketFrames[hConn]

\* The result of one handler run about hConn: the registry, the calls made,
\* what the transport holds for hConn (notified, unless the handler closed
\* it), and whether a ticket frame was accepted.
Committed(map, effects, hConn, notified, accepted) ==
    /\ m_mapClientData' = map
    /\ out' = effects
    /\ net' = [net EXCEPT ![hConn] = IF hConn \in ClosedBy(effects) THEN NoConnection ELSE notified]
    /\ pollGroup' = (pollGroup \cup JoinedBy(effects)) \ ClosedBy(effects)
    /\ authTrace' = [c \in Active |-> IF c = hConn THEN TraceAfter(map, hConn) ELSE authTrace[c]]
    /\ ticketFrames' = [c \in Active |-> IF c = hConn THEN FramesAfter(map, hConn, accepted) ELSE ticketFrames[c]]
    /\ UNCHANGED <<m_bRunning, lockVars>>

\* A handler run while no client of the model is on the wire.
Commit(map, effects, hConn, notified, accepted) ==
    /\ Committed(map, effects, hConn, notified, accepted)
    /\ UNCHANGED <<clientVars, wire>>

\* ------------------------------------------------- connection notifications

\* What the transport can report for hConn: a new inbound attempt on a free
\* handle, the next state of a live connection, its end, or, late or once
\* more, the end of a connection that is closed already (the notification
\* was queued before the close), whether the server still has a record of
\* it or not.
TransportReports(hConn, eOldState, eNewState, socket) ==
    \/ /\ eOldState = "None" /\ eNewState = "Connecting"
       /\ net[hConn] = NoConnection
       /\ hConn \notin DOMAIN m_mapClientData
       /\ socket \in ListenSockets
    \/ /\ eOldState = "Connecting" /\ eNewState = "Connected"
       /\ net[hConn] = [m_eState |-> eOldState, m_hListenSocket |-> socket]
    \/ /\ eOldState \in {"Connecting", "Connected"}
       /\ eNewState \in {"ClosedByPeer", "ProblemDetectedLocally"}
       /\ net[hConn] = [m_eState |-> eOldState, m_hListenSocket |-> socket]
    \/ /\ eOldState = "Connected"
       /\ eNewState \in {"ClosedByPeer", "ProblemDetectedLocally"}
       /\ net[hConn] = NoConnection
       /\ socket = m_hListenSocket

\* The capacity test with > for >=.
AtCapacity_OffByOne(map) == Cardinality(DOMAIN map) > MaxClients

\* The capacity test left out.
AtCapacity_Unchecked(map) == FALSE

\* m_mapClientData.size() >= 100
AtCapacity(map) == Cardinality(DOMAIN map) >= MaxClients

\* Every identity counts as valid.
IsValid_Always(steamID) == TRUE

\* info.m_identityRemote.IsInvalid(), CSteamID::IsValid()
IsValid(steamID) == steamID # InvalidSteamID

\* The record inserted before the result of AcceptConnection is tested.
AcceptOrReject_RegisteredFirst(hConn, acceptRes, pollGroupOk) ==
    IF AtCapacity(m_mapClientData)
    THEN [map |-> m_mapClientData,
          effects |-> <<Log(hConn, "Max clients reached"), CloseConnection(hConn, "Server full")>>]
    ELSE [map |-> Insert(m_mapClientData, hConn, ClientConnectionData_t),
          effects |-> IF acceptRes = "k_EResultOK"
                      THEN <<AcceptConnection(hConn)>>
                           \o (IF pollGroupOk THEN <<SetConnectionPollGroup(hConn)>>
                               ELSE <<Log(hConn, "Failed to add connection to poll group")>>)
                      ELSE <<AcceptConnection(hConn), Log(hConn, "Failed to accept connection"),
                             CloseConnection(hConn, "Accept failed")>>]

\* The Connecting branch for a connection of the server's listen socket.
AcceptOrReject(hConn, acceptRes, pollGroupOk) ==
    IF AtCapacity(m_mapClientData)
    THEN [map |-> m_mapClientData,
          effects |-> <<Log(hConn, "Max clients reached"), CloseConnection(hConn, "Server full")>>]
    ELSE IF acceptRes = "k_EResultOK"
    THEN [map |-> Insert(m_mapClientData, hConn, ClientConnectionData_t),
          effects |-> <<AcceptConnection(hConn)>>
                      \o (IF pollGroupOk THEN <<SetConnectionPollGroup(hConn)>>
                          ELSE <<Log(hConn, "Failed to add connection to poll group")>>)]
    ELSE [map |-> m_mapClientData,
          effects |-> <<AcceptConnection(hConn), Log(hConn, "Failed to accept connection"),
                        CloseConnection(hConn, "Accept failed")>>]

\* The Connected branch.
Established(hConn, identityRemote) ==
    IF hConn \in DOMAIN m_mapClientData
    THEN IF IsValid(identityRemote)
         THEN [map |-> [m_mapClientData EXCEPT ![hConn].m_steamID = identityRemote],
               effects |-> <<Log(hConn, "fully connected"),
                             SendMessageToClient(hConn, "WELCOME_SEND_AUTH_TICKET")>>]
         ELSE [map |-> Erase(m_mapClientData, hConn),
               effects |-> <<Log(hConn, "invalid remote identity"),
                             CloseConnection(hConn, "Invalid identity")>>]
    ELSE [map |-> m_mapClientData, effects |-> <<Log(hConn, "Connected but not in our map")>>]

\* The test of the AuthState left out.
EndsSessionOnDisconnect_AnyState(clientData) == IsValid(clientData.m_steamID)

\* clientData.m_eAuthState == AUTH_VALIDATED && clientData.m_steamID.IsValid()
EndsSessionOnDisconnect(clientData) ==
    clientData.m_eAuthState = "AUTH_VALIDATED" /\ IsValid(clientData.m_steamID)

HandleClientDisconnection(hConn) ==
    IF hConn \in DOMAIN m_mapClientData
    THEN [map |-> Erase(m_mapClientData, hConn),
          effects |-> <<Log(hConn, "disconnected")>>
                      \o (IF EndsSessionOnDisconnect(m_mapClientData[hConn])
                          THEN <<EndAuthSession(hConn, m_mapClientData[hConn].m_steamID)>>
                          ELSE <<>>)
                      \o <<CloseConnection(hConn, "")>>
                      \o <<Log(hConn, "removed from map")>>]
    ELSE [map |-> m_mapClientData, effects |-> <<>>]

StatusChanged(hConn, eOldState, eNewState, socket, identityRemote, acceptRes, pollGroupOk) ==
    IF eOldState = "None" /\ eNewState = "Connecting"
    THEN IF socket = m_hListenSocket
         THEN AcceptOrReject(hConn, acceptRes, pollGroupOk)
         ELSE [map |-> m_mapClientData, effects |-> <<Log(hConn, "not from our listen socket")>>]
    ELSE IF eNewState = "Connected"
    THEN Established(hConn, identityRemote)
    ELSE IF eNewState \in {"ClosedByPeer", "ProblemDetectedLocally"}
    THEN IF hConn \in DOMAIN m_mapClientData
         THEN HandleClientDisconnection(hConn)
         ELSE [map |-> m_mapClientData, effects |-> <<>>]
    ELSE [map |-> m_mapClientData, effects |-> <<>>]

OnSteamNetConnectionStatusChanged(hConn, eOldState, eNewState, socket, identityRemote, acceptRes, pollGroupOk) ==
    /\ m_bRunning
    /\ TransportReports(hConn, eOldState, eNewState, socket)
    /\ LET r == StatusChanged(hConn, eOldState, eNewState, socket, identityRemote, acceptRes, pollGroupOk)
           notified == IF net[hConn] = NoConnection /\ eOldState # "None"
                       THEN NoConnection
                       ELSE [m_eState |-> eNewState, m_hListenSocket |-> socket]
       IN  Commit(r.map, r.effects, hConn, notified, FALSE)

\* --------------------------------------------------------- inbound messages

\* The four bytes read least significant first.
ManualNetToHost32_LittleEndian(network_bytes_in) ==
    network_bytes_in[4] * 16777216 + network_bytes_in[3] * 65536
        + network_bytes_in[2] * 256 + network_bytes_in[1]

\* ManualNetToHost32: the first four bytes, most significant first.
ManualNetToHost32(network_bytes_in) ==
    network_bytes_in[1] * 16777216 + network_bytes_in[2] * 65536
        + network_bytes_in[3] * 256 + network_bytes_in[4]

\* ticketDataSize > 0 && (size == sizeof(uint32) + ticketDataSize)
\* (the sum is a size_t: 64 bits in the x64 builds the README asks for).
FramingOk(data, ticketDataSize) ==
    ticketDataSize > 0 /\ Len(data) = sizeofUint32 + ticketDataSize

\* m_authTicketData.resize(ticketDataSize); memcpy(..., data + sizeof(uint32), ticketDataSize)
TicketBytes(data, ticketDataSize) == SubSeq(data, sizeofUint32 + 1, sizeofUint32 + ticketDataSize)

\* A ticket frame is taken whatever the AuthState of the record.
ExpectsTicket_AnyState(eAuthState) == TRUE

\* m_eAuthState == AUTH_PENDING || m_eAuthState == AUTH_TICKET_RECEIVED
ExpectsTicket(eAuthState) == eAuthState \in {"AUTH_PENDING", "AUTH_TICKET_RECEIVED"}

\* The record after a ticket frame was accepted.
StoreTicket(clientData, data, ticketDataSize) ==
    [clientData EXCEPT !.m_authTicketData = TicketBytes(data, ticketDataSize),
                       !.m_eAuthState = "AUTH_TICKET_RECEIVED"]

\* Every record but a failed one is served.
ForwardsToApplication_NotFailed(eAuthState) == eAuthState # "AUTH_FAILED"

\* if (clientData.m_eAuthState == AUTH_VALIDATED): the payload reaches the application.
ForwardsToApplication(eAuthState) == eAuthState = "AUTH_VALIDATED"

\* The closing if / else if / else of ProcessMessageFromClient.
HandleByState(hConn, eAuthState, data) ==
    IF ForwardsToApplication(eAuthState)
    THEN <<Log(hConn, "Received from client")>>
         \o (IF data = HELLO_SERVER THEN <<SendMessageToClient(hConn, "SERVER_SAYS_HI_CLIENT")>> ELSE <<>>)
    ELSE IF eAuthState = "AUTH_FAILED"
    THEN <<Log(hConn, "auth failed, ignoring")>>
    ELSE <<Log(hConn, "auth not yet validated")>>

ProcessMessageFromClient(hConn, data) ==
    IF hConn \notin DOMAIN m_mapClientData
    THEN [map |-> m_mapClientData, effects |-> <<Log(hConn, "Message from unknown connection")>>, accepted |-> FALSE]
    ELSE LET clientData == m_mapClientData[hConn]
         IN  IF ExpectsTicket(clientData.m_eAuthState)
             THEN IF Len(data) > sizeofUint32
                  THEN LET ticketDataSize == ManualNetToHost32(data)
                       IN  IF FramingOk(data, ticketDataSize)
                           THEN LET stored == StoreTicket(clientData, data, ticketDataSize)
                                IN  [map |-> [m_mapClientData EXCEPT ![hConn] = stored],
                                     effects |-> HandleByState(hConn, stored.m_eAuthState, data),
                                     accepted |-> TRUE]
                           ELSE [map |-> m_mapClientData,
                                 effects |-> <<Log(hConn, "malformed auth ticket message")>>,
                                 accepted |-> FALSE]
                  ELSE [map |-> m_mapClientData,
                        effects |-> <<Log(hConn, "very small message")>>,
                        accepted |-> FALSE]
             ELSE [map |-> m_mapClientData,
                   effects |-> HandleByState(hConn, clientData.m_eAuthState, data),
                   accepted |-> FALSE]

\* A message for a connection without record gets a record.
UnknownConnection_Registered(hConn, data) ==
    [map |-> Insert(m_mapClientData, hConn, ClientConnectionData_t),
     effects |-> <<Log(hConn, "unknown or disconnected connection")>>,
     accepted |-> FALSE]

\* The else branch of PollNetwork: the connection has no record.
UnknownConnection(hConn, data) ==
    [map |-> m_mapClientData,
     effects |-> <<Log(hConn, "unknown or disconnected connection")>>,
     accepted |-> FALSE]

\* One message of the batch ReceiveMessagesOnPollGroup returned: from a
\* connection of the poll group, or fetched before its connection was closed.
PollNetwork(hConn, data) ==
    /\ m_bRunning
    /\ hConn \in pollGroup \/ net[hConn] = NoConnection
    /\ LET r == IF hConn \in DOMAIN m_mapClientData
                THEN ProcessMessageFromClient(hConn, data)
                ELSE UnknownConnection(hConn, data)
       IN  Commit(r.map, r.effects, hConn, net[hConn], r.accepted)

\* ------------------------------------------------------ validation callback

\* The test of the AuthState left out.
MatchesResponse_AnyAuthState(clientRef, steamID) == clientRef.m_steamID = steamID

\* clientRef.m_steamID == pCallback->m_SteamID && clientRef.m_eAuthState == AUTH_TICKET_RECEIVED
MatchesResponse(clientRef, steamID) ==
    clientRef.m_steamID = steamID /\ clientRef.m_eAuthState = "AUTH_TICKET_RECEIVED"

\* The records the search loop can stop at (the order of an unordered_map
\* is not specified: any matching record can be the first).
Found(steamID) == {c \in DOMAIN m_mapClientData : MatchesResponse(m_mapClientData[c], steamID)}

\* A ticket whose owner is not the connecting identity is refused.
AuthValidated_OwnerRequired(hFoundConn, steamID, ownerSteamID) ==
    IF steamID = ownerSteamID
    THEN [map |-> [m_mapClientData EXCEPT ![hFoundConn].m_eAuthState = "AUTH_VALIDATED"],
          effects |-> <<Log(hFoundConn, "Auth validated. Owner matches."),
                        SendMessageToClient(hFoundConn, "AUTH_SUCCESSFUL_WELCOME_PLAYER")>>]
    ELSE [map |-> [m_mapClientData EXCEPT ![hFoundConn].m_eAuthState = "AUTH_FAILED"],
          effects |-> <<Log(hFoundConn, "Auth failed. Disconnecting."),
                        SendMessageToClient(hFoundConn, "AUTH_FAILED_VALIDATION"),
                        CloseConnection(hFoundConn, "Auth validation failed")>>]

\* The k_EAuthSessionResponseOK branch.
AuthValidated(hFoundConn, steamID, ownerSteamID) ==
    [map |-> [m_mapClientData EXCEPT ![hFoundConn].m_eAuthState = "AUTH_VALIDATED"],
     effects |-> IF steamID = ownerSteamID
                 THEN <<Log(hFoundConn, "Auth validated. Owner matches."),
                        SendMessageToClient(hFoundConn, "AUTH_SUCCESSFUL_WELCOME_PLAYER")>>
                 ELSE <<Log(hFoundConn, "Auth validated but OwnerSteamID differs"),
                        SendMessageToClient(hFoundConn, "AUTH_SUCCESSFUL_WELCOME_PLAYER (owner mismatch noted)")>>]

\* The connection closed before the failure message is sent.
AuthFailedCalls_CloseFirst(hFoundConn) ==
    <<Log(hFoundConn, "Auth failed. Disconnecting."),
      CloseConnection(hFoundConn, "Auth validation failed"),
      SendMessageToClient(hFoundConn, "AUTH_FAILED_VALIDATION")>>

\* What the failure branch calls, in order.
AuthFailedCalls(hFoundConn) ==
    <<Log(hFoundConn, "Auth failed. Disconnecting."),
      SendMessageToClient(hFoundConn, "AUTH_FAILED_VALIDATION"),
      CloseConnection(hFoundConn, "Auth validation failed")>>

\* The failure branch failing every record that waits for a validation.
AuthFailedMap_EveryWaiting(hFoundConn) ==
    [c \in DOMAIN m_mapClientData |->
        IF m_mapClientData[c].m_eAuthState = "AUTH_TICKET_RECEIVED"
        THEN [m_mapClientData[c] EXCEPT !.m_eAuthState = "AUTH_FAILED"]
        ELSE m_mapClientData[c]]

\* The failure branch erasing the record itself.
AuthFailedMap_Erase(hFoundConn) == Erase(m_mapClientData, hFoundConn)

\* The registry after the failure branch.
AuthFailedMap(hFoundConn) == [m_mapClientData EXCEPT ![hFoundConn].m_eAuthState = "AUTH_FAILED"]

\* The session is ended whatever the response.
Untracked_AnyResponse(steamID, eAuthSessionResponse) ==
    [map |-> m_mapClientData,
     effects |-> <<Log(0, "no matching client in AUTH_TICKET_RECEIVED"),
                   EndAuthSession(0, steamID), Log(0, "Called EndAuthSession for untracked response")>>]

\* No record matches: a late or mismatched response.
Untracked(steamID, eAuthSessionResponse) ==
    [map |-> m_mapClientData,
     effects |-> <<Log(0, "no matching client in AUTH_TICKET_RECEIVED")>>
                 \o (IF eAuthSessionResponse # "k_EAuthSessionResponseOK"
                     THEN <<EndAuthSession(0, steamID), Log(0, "Called EndAuthSession for untracked response")>>
                     ELSE <<>>)]

\* if (hFoundConn != k_HSteamNetConnection_Invalid): the two outcomes.
Settled(hFoundConn, steamID, eAuthSessionResponse, ownerSteamID) ==
    IF eAuthSessionResponse = "k_EAuthSessionResponseOK"
    THEN AuthValidated(hFoundConn, steamID, ownerSteamID)
    ELSE [map |-> AuthFailedMap(hFoundConn), effects |-> AuthFailedCalls(hFoundConn)]

OnValidateAuthTicketResponse(steamID, eAuthSessionResponse, ownerSteamID) ==
    /\ m_bRunning
    /\ \/ \E hFoundConn \in Found(steamID) :
             LET r == Settled(hFoundConn, steamID, eAuthSessionResponse, ownerSteamID)
             IN  Commit(r.map, r.effects, hFoundConn, net[hFoundConn], FALSE)
       \/ /\ Found(steamID) = {}
          /\ LET r == Untracked(steamID, eAuthSessionResponse)
             IN  /\ m_mapClientData' = r.map
                 /\ out' = r.effects
                 /\ UNCHANGED <<m_bRunning, net, pollGroup, authTrace, ticketFrames, clientVars, lockVars, wire>>

\* ----------------------------------------------------------------- broadcast

\* What the console command "say" hands to BroadcastMessage.
Broadcasts == {"ServerBot: hello"}

\* Every record receives the broadcast.
ReceivesBroadcast_Everyone(clientData) == TRUE

\* if (clientData.m_eAuthState == ClientConnectionData_t::AUTH_VALIDATED)
ReceivesBroadcast(clientData) == clientData.m_eAuthState = "AUTH_VALIDATED"

\* What the loop does for handle connHandle.
BroadcastSlot(connHandle, message) ==
    IF connHandle \in DOMAIN m_mapClientData /\ ReceivesBroadcast(m_mapClientData[connHandle])
    THEN SendMessageToClient(connHandle, message)
    ELSE Log(0, "")

IsCall(e) == e.op # "spdlog"

\* The loop over the registry, one record after the other (listed here by
\* ascending handle).
BroadcastCalls(message) ==
    SelectSeq([connHandle \in 1 .. NumBackground + NumActive |-> BroadcastSlot(connHandle, message)], IsCall)

BroadcastMessage(message) ==
    /\ out' = BroadcastCalls(message)
    /\ UNCHANGED <<m_bRunning, m_mapClientData, net, pollGroup, authTrace, ticketFrames, clientVars, lockVars, wire>>

\* ------------------------------------------------------------------ shutdown

\* EndAuthSession for every record, whatever its AuthState.
ShutdownSlot_EndsEvery(i) ==
    LET connHandle == (i + 1) \div 2
    IN  IF connHandle \notin DOMAIN m_mapClientData THEN Log(0, "")
        ELSE IF i % 2 = 0 THEN CloseConnection(connHandle, "Server shutting down")
        ELSE EndAuthSession(connHandle, m_mapClientData[connHandle].m_steamID)

\* What the loop does for slot i of the handles in ascending order: the
\* odd slot of a handle is its EndAuthSession, if its record is validated,
\* the even slot its CloseConnection.
ShutdownSlot(i) ==
    LET connHandle == (i + 1) \div 2
    IN  IF connHandle \notin DOMAIN m_mapClientData THEN Log(0, "")
        ELSE IF i % 2 = 0 THEN CloseConnection(connHandle, "Server shutting down")
        ELSE IF m_mapClientData[connHandle].m_eAuthState = "AUTH_VALIDATED"
        THEN EndAuthSession(connHandle, m_mapClientData[connHandle].m_steamID)
        ELSE Log(0, "")

\* The loop over the registry, one record after the other (listed here by
\* ascending handle): EndAuthSession for a validated record, then
\* CloseConnection.
ShutdownCalls == SelectSeq([i \in 1 .. 2 * (NumBackground + NumActive) |-> ShutdownSlot(i)], IsCall)

\* m_mapClientData.clear()
Cleared == [c \in {} |-> ClientConnectionData_t]

\* Server::ShutdownSteam, and its first line (if (!m_bRunning) return;) for
\* a second call and for the destructor of a server that was shut down.
ShutdownSteam ==
    \/ /\ m_bRunning
       /\ m_bRunning' = FALSE
       /\ m_mapClientData' = Cleared
       /\ out' = ShutdownCalls
       /\ net' = [c \in Conns |-> IF c \in DOMAIN m_mapClientData THEN NoConnection ELSE net[c]]
       /\ pollGroup' = pollGroup \ DOMAIN m_mapClientData
       /\ authTrace' = [c \in Active |-> <<>>]
       /\ ticketFrames' = [c \in Active |-> 0]
       /\ UNCHANGED <<clientVars, lockVars, wire>>
    \/ /\ ~m_bRunning
       /\ out' = <<>>
       /\ UNCHANGED <<m_bRunning, m_mapClientData, net, pollGroup, authTrace, ticketFrames,
                      clientVars, lockVars, wire>>

\* -------------------------------------------------------------------- client

\* Client connection handles the transport hands out.
NumClientHandles == 1

ClientHandles == 1 .. NumClientHandles

\* k_HSteamNetConnection_Invalid
k_HSteamNetConnection_Invalid == 0

\* k_HAuthTicketInvalid
k_HAuthTicketInvalid == 0

\* const uint32 m_unAuthTicketBufferSize = 1024
m_unAuthTicketBufferSize == 1024

\* Ticket sizes GetAuthSessionTicket reports: the smallest, the size of the
\* example, the sizes around the first carry of the header, the largest.
TicketSizes == {1, 10, 255, 256, m_unAuthTicketBufferSize}

\* Byte i of the ticket of a seed.
TicketByte(seed, i) == (seed * i) % 256

TicketSeeds == {1, 255}

\* "WELCOME", "AUTH_SUCCESSFUL": the prefixes Client::ProcessMessage tests.
WELCOME == <<"W", "E", "L", "C", "O", "M", "E">>

AUTH_SUCCESSFUL == <<"A", "U", "T", "H", "_", "S", "U", "C", "C", "E", "S", "S", "F", "U", "L">>

\* What the client receives: the four messages the server sends, the bare
\* greeting, a greeting cut short, a greeting that is not at the start,
\* and an empty message.
ClientMessages ==
    { <<"W", "E", "L", "C", "O", "M", "E", "_", "S", "E", "N", "D", "_", "A", "U", "T", "H", "_", "T", "I", "C", "K", "E", "T">>,
      <<"A", "U", "T", "H", "_", "S", "U", "C", "C", "E", "S", "S", "F", "U", "L", "_", "W", "E", "L", "C", "O", "M", "E", "_", "P", "L", "A", "Y", "E", "R">>,
      <<"A", "U", "T", "H", "_", "F", "A", "I", "L", "E", "D", "_", "V", "A", "L", "I", "D", "A", "T", "I", "O", "N">>,
      <<"S", "E", "R", "V", "E", "R", "_", "S", "A", "Y", "S", "_", "H", "I", "_", "C", "L", "I", "E", "N", "T">>,
      WELCOME,
      <<"W", "E", "L", "C", "O", "M">>,
      <<" ", "W", "E", "L", "C", "O", "M", "E">>,
      <<>> }

\* "PING"
PING == <<"P", "I", "N", "G">>

\* Client::Client and a successful Client::InitializeSteam, with the ticket
\* GetAuthSessionTicket wrote: m_authTicketBuffer holds its
\* m_unAuthTicketSize bytes.
InitialClient(size, seed) ==
    [m_hConnection |-> k_HSteamNetConnection_Invalid,
     m_pInterface |-> TRUE,
     m_hAuthTicket |-> 1,
     m_bConnected |-> FALSE,
     m_bAttemptingConnection |-> FALSE,
     m_bAuthenticated |-> FALSE,
     m_bRunning |-> TRUE,
     m_unAuthTicketSize |-> size,
     m_authTicketBuffer |-> [i \in 1 .. size |-> TicketByte(seed, i)]]

\* Client::Client and a Client::InitializeSteam that returned false:
\* SteamAPI_Init or SteamNetworkingSockets failed (no interface, no call of
\* GetAuthSessionTicket), or GetAuthSessionTicket gave an invalid handle or
\* a ticket of size 0.  m_bRunning stays false.
FailedClient(pInterface, hAuthTicket, size) ==
    [m_hConnection |-> k_HSteamNetConnection_Invalid,
     m_pInterface |-> pInterface,
     m_hAuthTicket |-> hAuthTicket,
     m_bConnected |-> FALSE,
     m_bAttemptingConnection |-> FALSE,
     m_bAuthenticated |-> FALSE,
     m_bRunning |-> FALSE,
     m_unAuthTicketSize |-> size,
     m_authTicketBuffer |-> [i \in 1 .. size |-> TicketByte(1, i)]]

\* The members InitializeSteam can leave when it fails.
FailedClients ==
    { FailedClient(FALSE, k_HAuthTicketInvalid, 0),
      FailedClient(TRUE, k_HAuthTicketInvalid, 0),
      FailedClient(TRUE, k_HAuthTicketInvalid, 10),
      FailedClient(TRUE, 1, 0) }

\* The ports client_main can be built to connect to: SERVER_PORT as it
\* is, or the port of the server's listen socket.
Ports == {SERVER_PORT, DEFAULT_SERVER_PORT}

SendMessageToConnection(hConn, data) == [op |-> "SendMessageToConnection", conn |-> hConn, arg |-> data]

ConnectByIPAddress(hConn, serverPort) ==
    [op |-> "ConnectByIPAddress", conn |-> hConn, arg |-> "", m_port |-> serverPort]

CancelAuthTicket(hAuthTicket) == [op |-> "CancelAuthTicket", conn |-> 0, arg |-> hAuthTicket]

\* The result of one client operation: the members, the calls made and the
\* state of the connections at the transport, where a connection the
\* client closed is dead.
ClientCommitted(members, effects, transport) ==
    /\ client' = members
    /\ clientOut' = effects
    /\ clientNet' = [h \in ClientHandles |-> IF h \in ClosedBy(effects) THEN "Dead" ELSE transport[h]]
    /\ UNCHANGED lockVars

\* A client operation while no server of the model is on the wire.
ClientCommit(members, effects, transport) ==
    /\ ClientCommitted(members, effects, transport)
    /\ UNCHANGED <<m_bRunning, m_mapClientData, net, pollGroup, authTrace, ticketFrames, out, wire>>

\* The four bytes written least significant first.
ManualHostToNet32_LittleEndian(host_value) ==
    <<host_value % 256, (host_value \div 256) % 256,
      (host_value \div 65536) % 256, (host_value \div 16777216) % 256>>

\* ManualHostToNet32: (host_value >> 24) & 0xFF, ..., host_value & 0xFF.
ManualHostToNet32(host_value) ==
    <<(host_value \div 16777216) % 256, (host_value \div 65536) % 256,
      (host_value \div 256) % 256, host_value % 256>>

\* ticketMessage: sizeof(uint32) + m_unAuthTicketSize bytes, the size in
\* network byte order, then the first m_unAuthTicketSize bytes of the buffer.
TicketMessage(members) ==
    ManualHostToNet32(members.m_unAuthTicketSize)
        \o SubSeq(members.m_authTicketBuffer, 1, members.m_unAuthTicketSize)

\* prefix occurs somewhere in message.
StartsWith_Anywhere(message, prefix) ==
    \E k \in 1 .. Len(message) :
        k + Len(prefix) - 1 <= Len(message) /\ SubSeq(message, k, k + Len(prefix) - 1) = prefix

\* message.rfind(prefix, 0) == 0
StartsWith(message, prefix) ==
    Len(message) >= Len(prefix) /\ SubSeq(message, 1, Len(prefix)) = prefix

\* The attempt flag is set before the returned handle is looked at.
ConnectResult_AttemptingFirst(members, parsed, hNew, serverPort) ==
    IF ~members.m_pInterface \/ members.m_bConnected \/ members.m_bAttemptingConnection
    THEN [members |-> members, effects |-> <<Log(0, "Cannot connect")>>, result |-> FALSE]
    ELSE IF ~parsed
    THEN [members |-> members, effects |-> <<Log(0, "Invalid server address format")>>, result |-> FALSE]
    ELSE [members |-> [members EXCEPT !.m_hConnection = hNew, !.m_bAttemptingConnection = TRUE],
          effects |-> <<ConnectByIPAddress(hNew, serverPort)>>
                      \o (IF hNew = k_HSteamNetConnection_Invalid
                          THEN <<Log(0, "Failed to initiate connection")>> ELSE <<>>),
          result |-> hNew # k_HSteamNetConnection_Invalid]

\* Client::Connect for an address ParseString accepts or not, with the
\* handle ConnectByIPAddress returns; result is what Connect returns.
ConnectResult(members, parsed, hNew, serverPort) ==
    IF ~members.m_pInterface \/ members.m_bConnected \/ members.m_bAttemptingConnection
    THEN [members |-> members, effects |-> <<Log(0, "Cannot connect")>>, result |-> FALSE]
    ELSE IF ~parsed
    THEN [members |-> members, effects |-> <<Log(0, "Invalid server address format")>>, result |-> FALSE]
    ELSE IF hNew = k_HSteamNetConnection_Invalid
    THEN [members |-> [members EXCEPT !.m_hConnection = hNew],
          effects |-> <<ConnectByIPAddress(hNew, serverPort), Log(0, "Failed to initiate connection")>>,
          result |-> FALSE]
    ELSE [members |-> [members EXCEPT !.m_hConnection = hNew, !.m_bAttemptingConnection = TRUE],
          effects |-> <<ConnectByIPAddress(hNew, serverPort)>>,
          result |-> TRUE]

Connect(parsed, hNew, serverPort) ==
    /\ hNew \in ClientHandles => clientNet[hNew] = "None"
    /\ LET r == ConnectResult(client, parsed, hNew, serverPort)
       IN  ClientCommit(r.members, r.effects,
                        [h \in ClientHandles |-> IF h = r.members.m_hConnection /\ r.result
                                                 THEN "Connecting" ELSE clientNet[h]])

\* The connection is closed whether the client holds a handle or not.
DisconnectResult_Unguarded(members) ==
    [members |-> [members EXCEPT !.m_hConnection = k_HSteamNetConnection_Invalid,
                                 !.m_bConnected = FALSE,
                                 !.m_bAttemptingConnection = FALSE],
     effects |-> <<Log(members.m_hConnection, "Closing connection"),
                   CloseConnection(members.m_hConnection, "Client disconnecting")>>]

\* Client::Disconnect
DisconnectResult(members) ==
    IF members.m_hConnection # k_HSteamNetConnection_Invalid
    THEN [members |-> [members EXCEPT !.m_hConnection = k_HSteamNetConnection_Invalid,
                                      !.m_bConnected = FALSE,
                                      !.m_bAttemptingConnection = FALSE],
          effects |-> <<Log(members.m_hConnection, "Closing connection"),
                        CloseConnection(members.m_hConnection, "Client disconnecting")>>]
    ELSE [members |-> members, effects |-> <<>>]

Disconnect ==
    LET r == DisconnectResult(client)
    IN  ClientCommit(r.members, r.effects, clientNet)

\* Client::ProcessMessage, with the result of sending the ticket frame.
ProcessMessage(members, message, res) ==
    IF StartsWith(message, AUTH_SUCCESSFUL)
    THEN [members |-> [members EXCEPT !.m_bAuthenticated = TRUE],
          effects |-> <<Log(0, "Step 7: Received AUTH_SUCCESSFUL")>>]
    ELSE IF StartsWith(message, WELCOME)
    THEN [members |-> members,
          effects |-> <<Log(0, "Step 3: Received WELCOME"),
                        SendMessageToConnection(members.m_hConnection, TicketMessage(members)),
                        IF res = "k_EResultOK" THEN Log(0, "Auth ticket sent")
                        ELSE Log(0, "Failed to send auth ticket")>>]
    ELSE [members |-> members, effects |-> <<Log(0, "Received message from server")>>]

\* Client::PollIncomingMessages for a batch of one message, or for the
\* error ReceiveMessagesOnConnection reports (numMsgs < 0).
PollIncomingMessages(message, failed, res) ==
    LET r == IF ~client.m_bConnected \/ ~client.m_pInterface
                    \/ client.m_hConnection = k_HSteamNetConnection_Invalid
             THEN [members |-> client, effects |-> <<>>]
             ELSE IF failed
             THEN LET d == DisconnectResult(client)
                  IN  [members |-> d.members,
                       effects |-> <<Log(0, "Error checking for messages")>> \o d.effects]
             ELSE ProcessMessage(client, message, res)
    IN  ClientCommit(r.members, r.effects, clientNet)

\* Client::SendMessageToServer
SendMessageToServer(message) ==
    LET effects == IF ~client.m_bConnected \/ ~client.m_pInterface
                          \/ client.m_hConnection = k_HSteamNetConnection_Invalid
                   THEN <<Log(0, "Not connected, cannot send message")>>
                   ELSE <<SendMessageToConnection(client.m_hConnection, message)>>
    IN  ClientCommit(client, effects, clientNet)

\* What the transport can report to the client for hConn: the next state
\* of a live connection, or, late, any state of a connection that is dead
\* (the notification was queued before the close; the close itself is
\* reported as None).
ClientTransportReports(hConn, eState) ==
    \/ clientNet[hConn] = "Connecting"
       /\ eState \in {"Connecting", "Connected", "ClosedByPeer", "ProblemDetectedLocally"}
    \/ clientNet[hConn] = "Connected" /\ eState \in {"ClosedByPeer", "ProblemDetectedLocally"}
    \/ clientNet[hConn] = "Dead"
       /\ eState \in {"None", "Connecting", "Connected", "ClosedByPeer", "ProblemDetectedLocally"}

\* The ticket is cancelled with the connection.
ClosedCalls_CancelTicket(members, hConn) ==
    <<CloseConnection(hConn, ""), CancelAuthTicket(members.m_hAuthTicket)>>

\* What the closed branch calls for the client's own connection.
ClosedCalls(members, hConn) == <<CloseConnection(hConn, "")>>

\* The switch of Client::OnSteamNetConnectionStatusChanged.
ClientStatusChanged(members, hConn, eState) ==
    IF hConn = members.m_hConnection \/ members.m_hConnection = k_HSteamNetConnection_Invalid
    THEN IF eState \in {"None", "ClosedByPeer", "ProblemDetectedLocally"}
         THEN IF members.m_hConnection = hConn
              THEN [members |-> [members EXCEPT !.m_hConnection = k_HSteamNetConnection_Invalid,
                                                !.m_bConnected = FALSE,
                                                !.m_bAttemptingConnection = FALSE],
                    effects |-> <<Log(hConn, "Connection closed or failed")>> \o ClosedCalls(members, hConn)]
              ELSE [members |-> members, effects |-> <<Log(hConn, "Connection closed or failed")>>]
         ELSE IF eState = "Connecting"
         THEN [members |-> [members EXCEPT !.m_bAttemptingConnection = TRUE],
               effects |-> <<Log(hConn, "Connection attempt ongoing")>>]
         ELSE IF eState = "Connected"
         THEN [members |-> [members EXCEPT !.m_bConnected = TRUE,
                                           !.m_bAttemptingConnection = FALSE,
                                           !.m_hConnection = hConn],
               effects |-> <<Log(hConn, "Step 2: Connection established")>>]
         ELSE [members |-> members, effects |-> <<>>]
    ELSE [members |-> members, effects |-> <<>>]

\* Callbacks are delivered whether InitializeSteam succeeded or not.
RunCallbacks_Always(members) == TRUE

\* Client::RunCallbacks: if (!m_bRunning) return; SteamAPI_RunCallbacks()
RunCallbacks(members) == members.m_bRunning

\* Client::RunCallbacks delivering one SteamNetConnectionStatusChangedCallback_t.
Client_OnSteamNetConnectionStatusChanged(hConn, eState) ==
    /\ RunCallbacks(client)
    /\ ClientTransportReports(hConn, eState)
    /\ LET r == ClientStatusChanged(client, hConn, eState)
       IN  ClientCommit(r.members, r.effects,
                        [h \in ClientHandles |-> IF h = hConn /\ clientNet[h] # "Dead" THEN eState ELSE clientNet[h]])

\* Client::ShutdownSteam past its first line.
ShutdownResult(members) ==
    LET d == DisconnectResult([members EXCEPT !.m_bRunning = FALSE])
        cancelled == d.members.m_hAuthTicket # k_HAuthTicketInvalid
    IN  [members |-> [d.members EXCEPT !.m_hAuthTicket = k_HAuthTicketInvalid, !.m_bConnected = FALSE],
         effects |-> d.effects
                     \o (IF cancelled
                         THEN <<CancelAuthTicket(d.members.m_hAuthTicket), Log(0, "Auth ticket cancelled")>>
                         ELSE <<>>)
                     \o <<Log(0, "Shutting down SteamAPI")>>]

\* Client::ShutdownSteam
Client_ShutdownSteam ==
    /\ client.m_bRunning
    /\ LET r == ShutdownResult(client)
       IN  ClientCommit(r.members, r.effects, clientNet)

\* ------------------------------------------------------- threads and lock

\* Messages ReceiveMessagesOnPollGroup returns at most in one call here
\* (MAX_MESSAGES_PER_POLL_SERVER in the program).
MaxBatch == 3

\* The main thread (RunCallbacks, the console commands, ShutdownSteam) and
\* m_networkPollThread.
Threads == {"main", "poll"}

\* Where a thread reads or writes m_mapClientData, sends included.
RegistryAccess ==
    {"status_registry", "status_send", "validate_search", "validate_transition", "validate_send",
     "broadcast_iterate", "broadcast_send", "shutdown_loop", "poll_registry", "poll_send"}

\* Where a thread is inside SendMessageToClient.
SendLocations == {"status_send", "validate_send", "broadcast_send", "poll_send"}

\* The lock is taken without waiting for it.
MutexAvailable_NoWait(t) == TRUE

\* std::mutex::lock returns only once no thread holds the mutex.
MutexAvailable(t) == m_mutexClientData = "free"

Goto(t, to) == pc' = [pc EXCEPT ![t] = to]

LockFrame == UNCHANGED <<m_mapClientData, net, pollGroup, authTrace, ticketFrames, out, clientVars, wire>>

\* std::lock_guard<std::mutex> lock(m_mutexClientData)
LockGuard(t, from, to) ==
    /\ pc[t] = from
    /\ MutexAvailable(t)
    /\ m_mutexClientData' = t
    /\ Goto(t, to)
    /\ UNCHANGED <<m_bRunning, batch>>
    /\ LockFrame

\* A step of t that neither takes nor releases the lock.
Advance(t, from, to) ==
    /\ pc[t] = from
    /\ Goto(t, to)
    /\ UNCHANGED <<m_bRunning, m_mutexClientData, batch>>
    /\ LockFrame

\* The end of the scope of the lock_guard.
Unlock(t, from, to) ==
    /\ pc[t] = from
    /\ m_mutexClientData' = "free"
    /\ Goto(t, to)
    /\ UNCHANGED <<m_bRunning, batch>>
    /\ LockFrame

\* The main loop: RunCallbacks delivers a status or a validation callback,
\* or the console command "say" calls BroadcastMessage.
MainLoop ==
    /\ m_bRunning
    /\ \E to \in {"status_lock", "validate_lock", "broadcast_lock"} : Advance("main", "idle", to)

\* OnSteamNetConnectionStatusChanged: the lock, the branches on the
\* registry, then WELCOME_SEND_AUTH_TICKET for a connected client, or return.
StatusCallback ==
    \/ LockGuard("main", "status_lock", "status_registry")
    \/ Advance("main", "status_registry", "status_send")
    \/ Unlock("main", "status_registry", "idle")
    \/ Unlock("main", "status_send", "idle")

\* OnValidateAuthTicketResponse: the lock, the search, the transition and
\* the message to the client, or the untracked branch.
ValidateCallback ==
    \/ LockGuard("main", "validate_lock", "validate_search")
    \/ Advance("main", "validate_search", "validate_transition")
    \/ Unlock("main", "validate_search", "idle")
    \/ Advance("main", "validate_transition", "validate_send")
    \/ Unlock("main", "validate_send", "idle")

\* BroadcastMessage: the lock, then the loop, sending to validated records.
Broadcast ==
    \/ LockGuard("main", "broadcast_lock", "broadcast_iterate")
    \/ Advance("main", "broadcast_iterate", "broadcast_send")
    \/ Advance("main", "broadcast_send", "broadcast_iterate")
    \/ Unlock("main", "broadcast_iterate", "idle")

\* ShutdownSteam joining the poll thread inside the scope of its lock_guard.
Shutdown_JoinUnderLock ==
    \/ /\ pc["main"] = "idle"
       /\ m_bRunning
       /\ m_bRunning' = FALSE
       /\ Goto("main", "shutdown_lock")
       /\ UNCHANGED <<m_mutexClientData, batch>>
       /\ LockFrame
    \/ LockGuard("main", "shutdown_lock", "shutdown_join")
    \/ pc["poll"] = "exited" /\ Advance("main", "shutdown_join", "shutdown_loop")
    \/ Unlock("main", "shutdown_loop", "done")

\* ShutdownSteam: m_bRunning = false, join of the poll thread, then the
\* loop over the registry and clear() under the lock.
Shutdown ==
    \/ /\ pc["main"] = "idle"
       /\ m_bRunning
       /\ m_bRunning' = FALSE
       /\ Goto("main", "shutdown_join")
       /\ UNCHANGED <<m_mutexClientData, batch>>
       /\ LockFrame
    \/ pc["poll"] = "exited" /\ Advance("main", "shutdown_join", "shutdown_lock")
    \/ LockGuard("main", "shutdown_lock", "shutdown_loop")
    \/ Unlock("main", "shutdown_loop", "done")

\* m_networkPollThread: while (m_bRunning) { PollNetwork(); sleep }
PollLoop ==
    \/ m_bRunning /\ Advance("poll", "loop", "receive")
    \/ ~m_bRunning /\ Advance("poll", "loop", "exited")

\* PollNetwork: ReceiveMessagesOnPollGroup, then for each message the
\* lock, ProcessMessageFromClient (which may answer the client) and the
\* end of the block.
PollThread ==
    \/ /\ pc["poll"] = "receive"
       /\ \E numMsgs \in 0 .. MaxBatch : batch' = numMsgs
       /\ Goto("poll", "next")
       /\ UNCHANGED <<m_bRunning, m_mutexClientData>>
       /\ LockFrame
    \/ batch > 0 /\ Advance("poll", "next", "poll_lock")
    \/ batch = 0 /\ Advance("poll", "next", "loop")
    \/ LockGuard("poll", "poll_lock", "poll_registry")
    \/ Advance("poll", "poll_registry", "poll_send")
    \/ \E from \in {"poll_registry", "poll_send"} :
          /\ pc["poll"] = from
          /\ m_mutexClientData' = "free"
          /\ batch' = batch - 1
          /\ Goto("poll", "next")
          /\ UNCHANGED m_bRunning
          /\ LockFrame

\* ---------------------------------------------------------------- the wire

\* Messages the wire holds in one direction at most.
MaxWire == 2

\* Nothing dialled, no connection of the client at the server, nothing in
\* flight.  m_port is the port the client dialled, linked tells whether
\* the transport has made the client's attempt a connection at the server
\* ("no", "yes", or "over" once either side closed it), notify whether the
\* server has yet to be told that the connection it closed is gone.
NoWire == [m_port |-> 0, linked |-> "no", notify |-> FALSE, toServer |-> <<>>, toClient |-> <<>>]

\* ------------------------------------------------------------ specification

\* The record of Peer at the start: connected, its ticket frame received.
PeerData ==
    [m_steamID |-> PeerSteamID, m_eAuthState |-> "AUTH_TICKET_RECEIVED", m_authTicketData |-> <<7>>]

\* The server after InitializeSteam, with the background connections
\* accepted and nothing of the explored connections received yet, its
\* threads at the top of their loops; the client after InitializeSteam,
\* not connected, with the ticket it obtained.
Start(members) ==
    /\ client = members
    /\ wire = NoWire
    /\ clientNet = [h \in ClientHandles |-> "None"]
    /\ clientOut = <<>>
    /\ m_mutexClientData = "free"
    /\ pc = [t \in Threads |-> IF t = "main" THEN "idle" ELSE "loop"]
    /\ batch = 0
    /\ m_bRunning = TRUE
    /\ m_mapClientData = [c \in Background |-> IF c = Peer THEN PeerData ELSE ClientConnectionData_t]
    /\ net = [c \in Conns |->
                IF c = Peer THEN [m_eState |-> "Connected", m_hListenSocket |-> m_hListenSocket]
                ELSE IF c \in Background
                THEN [m_eState |-> "Connecting", m_hListenSocket |-> m_hListenSocket]
                ELSE NoConnection]
    /\ pollGroup = Background
    /\ authTrace = [c \in Active |-> <<>>]
    /\ ticketFrames = [c \in Active |-> 0]
    /\ out = <<>>

\* The start with a ticket of one byte.
Init == Start(InitialClient(1, 1))

\* A new inbound connection attempt, with the results of AcceptConnection
\* and SetConnectionPollGroup.
Attempted(hConn, socket, acceptRes, pollGroupOk) ==
    OnSteamNetConnectionStatusChanged(hConn, "None", "Connecting", socket, InvalidSteamID, acceptRes, pollGroupOk)

ConnectionAttempt ==
    \E hConn \in Active, socket \in ListenSockets, acceptRes \in EResults, pollGroupOk \in BOOLEAN :
        Attempted(hConn, socket, acceptRes, pollGroupOk)

\* A connection becomes Connected, with the peer identity the transport reports.
Connected(hConn, identityRemote) ==
    OnSteamNetConnectionStatusChanged(hConn, "Connecting", "Connected", net[hConn].m_hListenSocket,
                                      identityRemote, "k_EResultOK", TRUE)

ConnectionEstablished ==
    \E hConn \in Active, identityRemote \in Identities \cup {InvalidSteamID} : Connected(hConn, identityRemote)

\* A connection ends: closed by the peer or a problem detected locally.
Lost(hConn, eNewState) ==
    IF net[hConn] = NoConnection
    THEN OnSteamNetConnectionStatusChanged(hConn, "Connected", eNewState, m_hListenSocket,
                                           InvalidSteamID, "k_EResultOK", TRUE)
    ELSE OnSteamNetConnectionStatusChanged(hConn, net[hConn].m_eState, eNewState, net[hConn].m_hListenSocket,
                                           InvalidSteamID, "k_EResultOK", TRUE)

ConnectionLost ==
    \E hConn \in Active, eNewState \in {"ClosedByPeer", "ProblemDetectedLocally"} : Lost(hConn, eNewState)

MessageReceived == \E hConn \in Active, data \in Frames : PollNetwork(hConn, data)

ValidationResponse ==
    \E steamID \in SteamIDs, eAuthSessionResponse \in AuthSessionResponses, ownerSteamID \in SteamIDs :
        OnValidateAuthTicketResponse(steamID, eAuthSessionResponse, ownerSteamID)

\* The console command "say".
Say == \E message \in Broadcasts : BroadcastMessage(message)

Next ==
    \/ ConnectionAttempt
    \/ ConnectionEstablished
    \/ ConnectionLost
    \/ MessageReceived
    \/ ValidationResponse
    \/ Say
    \/ ShutdownSteam

Spec == Init /\ [][Next]_vars

\* The client over every ticket: client_main connects, polls, sends, and
\* shuts down; the transport reports; the server does not move.
ClientInit ==
    \/ \E size \in TicketSizes, seed \in TicketSeeds : Start(InitialClient(size, seed))
    \/ \E members \in FailedClients : Start(members)

ConnectRequested ==
    \E parsed \in BOOLEAN, hNew \in ClientHandles \cup {k_HSteamNetConnection_Invalid}, serverPort \in Ports :
        Connect(parsed, hNew, serverPort)

ClientNotified ==
    \E hConn \in ClientHandles, eState \in {"None", "Connecting", "Connected", "ClosedByPeer", "ProblemDetectedLocally"} :
        Client_OnSteamNetConnectionStatusChanged(hConn, eState)

ClientPolled ==
    \E message \in ClientMessages, failed \in BOOLEAN, res \in EResults :
        PollIncomingMessages(message, failed, res)

PingSent == SendMessageToServer(PING)

ClientNext ==
    \/ ConnectRequested
    \/ ClientNotified
    \/ ClientPolled
    \/ PingSent
    \/ Disconnect
    \/ Client_ShutdownSteam

ClientSpec == ClientInit /\ [][ClientNext]_vars

\* The server's two threads, statement by statement around the lock.
LockNext ==
    \/ MainLoop
    \/ StatusCallback
    \/ ValidateCallback
    \/ Broadcast
    \/ Shutdown
    \/ PollLoop
    \/ PollThread

LockSpec == Init /\ [][LockNext]_vars

\* The two threads as the scheduler runs them: a thread that can take a
\* step of the code it is in takes it, a thread blocked in
\* std::mutex::lock is woken when the mutex is released, and the loop of
\* BroadcastMessage over the (finite) registry ends.  What the main loop
\* starts (a callback, "say", the shutdown) is up to the environment.
LockFairSpec ==
    /\ Init
    /\ [][LockNext]_vars
    /\ SF_vars(StatusCallback)
    /\ SF_vars(ValidateCallback)
    /\ SF_vars(Broadcast)
    /\ SF_vars(Unlock("main", "broadcast_iterate", "idle"))
    /\ SF_vars(Shutdown /\ pc["main"] # "idle")
    /\ SF_vars(PollLoop)
    /\ SF_vars(PollThread)

\* The closing paths side by side: the life of one server connection, from
\* its attempt to its end, and the client connecting and closing.
First == NumBackground + 1

FirstAttempt == Attempted(First, m_hListenSocket, "k_EResultOK", TRUE)

FirstConnected == Connected(First, 1)

FirstTicket == PollNetwork(First, <<0, 0, 0, 1, 7>>)

FirstValidation ==
    \E eAuthSessionResponse \in AuthSessionResponses : OnValidateAuthTicketResponse(1, eAuthSessionResponse, 1)

FirstLost == \E eNewState \in {"ClosedByPeer", "ProblemDetectedLocally"} : Lost(First, eNewState)

CloseNext ==
    \/ FirstAttempt
    \/ FirstConnected
    \/ FirstTicket
    \/ FirstValidation
    \/ FirstLost
    \/ ConnectRequested
    \/ ClientNotified
    \/ Disconnect
    \/ Client_ShutdownSteam

CloseSpec == Init /\ [][CloseNext]_vars

\* The client and the server on one wire: client_main dials, the transport
\* makes the attempt a connection of the server (First) when the port is
\* the one the server listens on, carries the messages both ways in order
\* and tells each side when the other closed; the identity service calls
\* back for the client's identity.
hClient == 1

\* The client's identity, as the transport reports it to the server.
ClientSteamID == 1

\* listen socket bound to DEFAULT_SERVER_PORT: the attempts it receives.
Listens(serverPort) == serverPort = DEFAULT_SERVER_PORT

\* The characters of a message the server sends.
Characters(message) ==
    CASE message = "WELCOME_SEND_AUTH_TICKET" -> <<"W", "E", "L", "C", "O", "M", "E", "_", "S", "E", "N", "D", "_", "A", "U", "T", "H", "_", "T", "I", "C", "K", "E", "T">>
      [] message = "AUTH_SUCCESSFUL_WELCOME_PLAYER" -> 
            <<"A", "U", "T", "H", "_", "S", "U", "C", "C", "E", "S", "S", "F", "U", "L", "_", "W", "E", "L", "C", "O", "M", "E", "_", "P", "L", "A", "Y", "E", "R">>
      [] message = "AUTH_SUCCESSFUL_WELCOME_PLAYER (owner mismatch noted)" -> 
            <<"A", "U", "T", "H", "_", "S", "U", "C", "C", "E", "S", "S", "F", "U", "L", "_", "W", "E", "L", "C", "O", "M", "E", "_", "P", "L", "A", "Y", "E", "R", " ", "(", "o", "w", "n", "e", "r", " ", "m", "i", "s", "m", "a", "t", "c", "h", " ", "n", "o", "t", "e", "d", ")">>
      [] message = "AUTH_FAILED_VALIDATION" -> <<"A", "U", "T", "H", "_", "F", "A", "I", "L", "E", "D", "_", "V", "A", "L", "I", "D", "A", "T", "I", "O", "N">>
      [] OTHER -> <<"S", "E", "R", "V", "E", "R", "_", "S", "A", "Y", "S", "_", "H", "I", "_", "C", "L", "I", "E", "N", "T">>

\* "PING" as bytes.
PingBytes == <<80, 73, 78, 71>>

IsSendToFirst(e) == e.op = "SendMessageToConnection" /\ e.conn = First

IsSend(e) == e.op = "SendMessageToConnection"

\* What a handler's calls put on the wire to the client.
ToClient(effects) ==
    LET sends == SelectSeq(effects, IsSendToFirst)
    IN  [i \in 1 .. Len(sends) |-> Characters(sends[i].arg)]

\* The ticket frames a client operation's calls put on the wire to the server.
ToServer(effects) ==
    LET sends == SelectSeq(effects, IsSend)
    IN  [i \in 1 .. Len(sends) |-> sends[i].arg]

\* A handler run of the server about First, w being the wire as the
\* transport left it: what the handler sends goes on the wire, and a
\* connection the handler closes is over and the server is to be notified.
ServerStep(r, notified, accepted, w) ==
    /\ Committed(r.map, r.effects, First, notified, accepted)
    /\ wire' = [w EXCEPT !.toClient = @ \o ToClient(r.effects),
                         !.linked = IF First \in ClosedBy(r.effects) THEN "over" ELSE @,
                         !.notify = @ \/ First \in ClosedBy(r.effects)]
    /\ UNCHANGED clientVars

\* An operation of the client, w being the wire with what the operation
\* sent: a connection the client closes is over.
ClientStep(r, transport, w) ==
    /\ ClientCommitted(r.members, r.effects, transport)
    /\ wire' = [w EXCEPT !.linked = IF ClosedBy(r.effects) # {} /\ @ = "yes" THEN "over" ELSE @]
    /\ UNCHANGED <<m_bRunning, m_mapClientData, net, pollGroup, authTrace, ticketFrames, out>>

\* client_main: client.Connect(SERVER_ADDRESS, SERVER_PORT), for each of Ports.
SessionDial ==
    \E serverPort \in Ports :
        /\ clientNet[hClient] = "None"
        /\ LET r == ConnectResult(client, TRUE, hClient, serverPort)
           IN  /\ r.result
               /\ ClientStep(r, [clientNet EXCEPT ![hClient] = "Connecting"], [wire EXCEPT !.m_port = serverPort])

\* The client's attempt arrives at the server's listen socket.
SessionAttempt ==
    \E acceptRes \in EResults :
        /\ m_bRunning
        /\ Listens(wire.m_port)
        /\ wire.linked = "no"
        /\ clientNet[hClient] = "Connecting"
        /\ net[First] = NoConnection
        /\ ServerStep(StatusChanged(First, "None", "Connecting", m_hListenSocket, InvalidSteamID, acceptRes, TRUE),
                      [m_eState |-> "Connecting", m_hListenSocket |-> m_hListenSocket], FALSE,
                      [wire EXCEPT !.linked = "yes"])

\* The server is told that First is connected, with the client's identity.
SessionServerConnected ==
    /\ m_bRunning
    /\ wire.linked = "yes"
    /\ net[First] = [m_eState |-> "Connecting", m_hListenSocket |-> m_hListenSocket]
    /\ ServerStep(StatusChanged(First, "Connecting", "Connected", m_hListenSocket, ClientSteamID, "k_EResultOK", TRUE),
                  [m_eState |-> "Connected", m_hListenSocket |-> m_hListenSocket], FALSE, wire)

\* The client is told that its connection is connected.
SessionClientConnected ==
    /\ RunCallbacks(client)
    /\ wire.linked = "yes"
    /\ clientNet[hClient] = "Connecting"
    /\ net[First].m_eState \in {"Connecting", "Connected"}
    /\ ClientStep(ClientStatusChanged(client, hClient, "Connected"),
                  [clientNet EXCEPT ![hClient] = "Connected"], wire)

\* The client's main loop polls the next message of the server.
SessionClientPolls ==
    /\ client.m_bConnected /\ client.m_pInterface
    /\ client.m_hConnection # k_HSteamNetConnection_Invalid
    /\ wire.toClient # <<>>
    /\ LET r == ProcessMessage(client, Head(wire.toClient), "k_EResultOK")
       IN  ClientStep(r, clientNet, [wire EXCEPT !.toClient = Tail(@), !.toServer = @ \o ToServer(r.effects)])

\* The server's poll thread processes the next message of the client.
SessionServerPolls ==
    /\ m_bRunning
    /\ wire.toServer # <<>>
    /\ LET data == Head(wire.toServer)
           r == IF First \in DOMAIN m_mapClientData
                THEN ProcessMessageFromClient(First, data)
                ELSE UnknownConnection(First, data)
       IN  ServerStep(r, net[First], r.accepted, [wire EXCEPT !.toServer = Tail(@)])

\* The identity service calls back for the client's identity.
SessionValidation ==
    \E eAuthSessionResponse \in AuthSessionResponses, ownerSteamID \in SteamIDs :
        /\ m_bRunning
        /\ First \in Found(ClientSteamID)
        /\ ServerStep(Settled(First, ClientSteamID, eAuthSessionResponse, ownerSteamID), net[First], FALSE, wire)

\* The server is told that the connection it closed itself is gone: the
\* notification carries the state None.
SessionServerNotified ==
    /\ m_bRunning
    /\ wire.notify
    /\ net[First] = NoConnection
    /\ ServerStep(StatusChanged(First, "Connected", "None", m_hListenSocket, InvalidSteamID, "k_EResultOK", TRUE),
                  NoConnection, FALSE, [wire EXCEPT !.notify = FALSE])

\* The server is told that the client closed the connection.
SessionServerLost ==
    /\ m_bRunning
    /\ clientNet[hClient] = "Dead"
    /\ net[First] # NoConnection
    /\ ServerStep(StatusChanged(First, net[First].m_eState, "ClosedByPeer", m_hListenSocket,
                                InvalidSteamID, "k_EResultOK", TRUE),
                  [m_eState |-> "ClosedByPeer", m_hListenSocket |-> m_hListenSocket], FALSE, wire)

\* The client is told that the server closed the connection, or that
\* nothing answered at the port it dialled.
SessionClientClosed ==
    /\ RunCallbacks(client)
    /\ clientNet[hClient] \in {"Connecting", "Connected"}
    /\ \/ /\ wire.linked = "over"
          /\ ClientStep(ClientStatusChanged(client, hClient, "ClosedByPeer"),
                        [clientNet EXCEPT ![hClient] = "ClosedByPeer"], wire)
       \/ /\ ~Listens(wire.m_port)
          /\ ClientStep(ClientStatusChanged(client, hClient, "ProblemDetectedLocally"),
                        [clientNet EXCEPT ![hClient] = "ProblemDetectedLocally"], wire)

\* client_main: the periodic PING of an authenticated client.
SessionPing ==
    /\ client.m_bAuthenticated
    /\ client.m_bConnected /\ client.m_pInterface
    /\ client.m_hConnection # k_HSteamNetConnection_Invalid
    /\ Len(wire.toServer) < MaxWire
    /\ ClientStep([members |-> client, effects |-> <<SendMessageToConnection(client.m_hConnection, PING)>>],
                  clientNet, [wire EXCEPT !.toServer = Append(@, PingBytes)])

\* client_main after "quit": client.Disconnect(); client.ShutdownSteam().
SessionQuit ==
    /\ client.m_bRunning
    /\ clientNet[hClient] # "None"
    /\ ClientStep(ShutdownResult(client), clientNet, wire)

SessionInit == \E size \in {1, 10} : Start(InitialClient(size, 1))

SessionNext ==
    \/ SessionDial
    \/ SessionAttempt
    \/ SessionServerConnected
    \/ SessionClientConnected
    \/ SessionClientPolls
    \/ SessionServerPolls
    \/ SessionValidation
    \/ SessionServerNotified
    \/ SessionServerLost
    \/ SessionClientClosed
    \/ SessionPing
    \/ SessionQuit

\* The transport delivers what it holds and both programs run their loops
\* (RunCallbacks, PollIncomingMessages, PollNetwork), so these steps are
\* taken when they stay possible.  The user need not quit, and the
\* identity service owes no callback: it calls back for a ticket handed to
\* it with BeginAuthSession, which the server never calls.
SessionSpec ==
    /\ SessionInit
    /\ [][SessionNext]_vars
    /\ WF_vars(SessionAttempt)
    /\ WF_vars(SessionServerConnected)
    /\ WF_vars(SessionClientConnected)
    /\ WF_vars(SessionClientPolls)
    /\ WF_vars(SessionServerPolls)
    /\ WF_vars(SessionServerNotified)
    /\ WF_vars(SessionServerLost)
    /\ WF_vars(SessionClientClosed)

\* ---------------------------------------------------------------- claims

\* message.rfind("AUTH_SUCCESSFUL", 0) == 0, over the messages the server sends.
AuthSuccessful(message) ==
    message \in {"AUTH_SUCCESSFUL_WELCOME_PLAYER", "AUTH_SUCCESSFUL_WELCOME_PLAYER (owner mismatch noted)"}

\* The places in a handler's calls where op was called for hConn.
CallsOf(effects, op, hConn) == {i \in DOMAIN effects : effects[i].op = op /\ effects[i].conn = hConn}

\* The places in a handler's calls where a success message is sent to hConn.
SuccessSends(effects, hConn) ==
    {i \in CallsOf(effects, "SendMessageToConnection", hConn) : AuthSuccessful(effects[i].arg)}

\* The length a frame declares: its first four bytes as a big-endian number.
DeclaredLength(data) == ((data[1] * 256 + data[2]) * 256 + data[3]) * 256 + data[4]

\* The declared length equals the number of bytes after the header.
WellFormed(data) == Len(data) >= 4 /\ DeclaredLength(data) = Len(data) - 4

AuthStateOf(map, hConn) == IF hConn \in DOMAIN map THEN map[hConn].m_eAuthState ELSE "none"

\* C1 (as amended): whenever the server sends a message beginning with
\* AUTH_SUCCESSFUL to a connection, the server has accepted at least one
\* well-formed ticket frame from it and its record went from AUTH_PENDING
\* through AUTH_TICKET_RECEIVED to AUTH_VALIDATED.
C1_SuccessAfterTicket ==
    \A hConn \in Active :
        SuccessSends(out, hConn) # {} =>
            /\ ticketFrames[hConn] >= 1
            /\ authTrace[hConn] = <<"AUTH_PENDING", "AUTH_TICKET_RECEIVED", "AUTH_VALIDATED">>

\* C1 as stated: the connection sent exactly one well-formed ticket frame.
C1_ExactlyOneTicket ==
    \A hConn \in Active :
        SuccessSends(out, hConn) # {} =>
            /\ ticketFrames[hConn] = 1
            /\ authTrace[hConn] = <<"AUTH_PENDING", "AUTH_TICKET_RECEIVED", "AUTH_VALIDATED">>

\* A success message was just sent to a connection that had sent one ticket frame.
C1_Witness ==
    \E hConn \in Active :
        /\ SuccessSends(out, hConn) # {}
        /\ ticketFrames[hConn] = 1
        /\ m_mapClientData[hConn].m_eAuthState = "AUTH_VALIDATED"

\* C2 as stated: a well-formed frame on a Pending record moves the record
\* to TicketReceived, stores the bytes after the header and hands them to
\* the identity service (BeginAuthSession) for the record's identity.
C2_TicketHandedToIdentityService ==
    [][\A hConn \in Active, data \in Frames :
          (/\ PollNetwork(hConn, data)
           /\ AuthStateOf(m_mapClientData, hConn) = "AUTH_PENDING"
           /\ WellFormed(data))
          => /\ AuthStateOf(m_mapClientData', hConn) = "AUTH_TICKET_RECEIVED"
             /\ m_mapClientData'[hConn].m_authTicketData = SubSeq(data, 5, Len(data))
             /\ \E i \in CallsOf(out', "BeginAuthSession", hConn) :
                   out'[i].arg = m_mapClientData[hConn].m_steamID]_vars

\* C3: a validation response that finds a record in TicketReceived makes it
\* Validated and sends it the success message when the response is OK, and
\* otherwise makes it Failed, sends the failure message and then closes the
\* connection; a Failed record stays Failed, and no handler starts another
\* validation.
C3_ValidationOutcome ==
    [][/\ \A steamID \in SteamIDs, eAuthSessionResponse \in AuthSessionResponses, ownerSteamID \in SteamIDs :
            (OnValidateAuthTicketResponse(steamID, eAuthSessionResponse, ownerSteamID) /\ Found(steamID) # {})
            => \E hConn \in Found(steamID) :
                  IF eAuthSessionResponse = "k_EAuthSessionResponseOK"
                  THEN /\ AuthStateOf(m_mapClientData', hConn) = "AUTH_VALIDATED"
                       /\ SuccessSends(out', hConn) # {}
                       /\ CallsOf(out', "CloseConnection", hConn) = {}
                  ELSE /\ AuthStateOf(m_mapClientData', hConn) = "AUTH_FAILED"
                       /\ \E i \in CallsOf(out', "SendMessageToConnection", hConn) :
                             /\ out'[i].arg = "AUTH_FAILED_VALIDATION"
                             /\ CallsOf(out', "CloseConnection", hConn) # {}
                             /\ \A j \in CallsOf(out', "CloseConnection", hConn) : i < j
       /\ \A hConn \in Active :
            (AuthStateOf(m_mapClientData, hConn) = "AUTH_FAILED" /\ hConn \in DOMAIN m_mapClientData')
            => AuthStateOf(m_mapClientData', hConn) = "AUTH_FAILED"
       /\ \A i \in DOMAIN out' : out'[i].op # "BeginAuthSession"]_vars

\* A record was just failed: the failure message, then the close.
C3_Witness ==
    \E hConn \in Active :
        /\ AuthStateOf(m_mapClientData, hConn) = "AUTH_FAILED"
        /\ CallsOf(out, "CloseConnection", hConn) # {}
        /\ net[hConn] = NoConnection

\* C4: a frame whose declared length differs from the number of bytes after
\* the header, processed for a record that is Pending or TicketReceived,
\* leaves the record as it was (AuthState and stored ticket bytes) and is
\* not handed to the identity service.
C4_MalformedFrameDiscarded ==
    [][\A hConn \in Active, data \in Frames :
          (/\ PollNetwork(hConn, data)
           /\ AuthStateOf(m_mapClientData, hConn) \in {"AUTH_PENDING", "AUTH_TICKET_RECEIVED"}
           /\ ~WellFormed(data))
          => /\ m_mapClientData' = m_mapClientData
             /\ \A i \in DOMAIN out' : out'[i].op # "BeginAuthSession"]_vars

\* A malformed frame was just discarded for a record that holds a ticket.
C4_Witness ==
    \E hConn \in Active :
        /\ out = <<Log(hConn, "malformed auth ticket message")>>
        /\ AuthStateOf(m_mapClientData, hConn) = "AUTH_TICKET_RECEIVED"
        /\ m_mapClientData[hConn].m_authTicketData # <<>>

\* The connections of the server's listen socket that are not closed.
Open == {c \in Conns : net[c].m_eState \in {"Connecting", "Connected"} /\ net[c].m_hListenSocket = m_hListenSocket}

\* C5 as stated: the registry holds as many records as there are
\* connections that are not closed.
C5_RegistryMatchesOpenConnections == Cardinality(DOMAIN m_mapClientData) = Cardinality(Open)

\* C6: a disconnect or problem notification for a connection that has a
\* record removes the record, and EndAuthSession is called for the record's
\* identity exactly when the record was Validated.
C6_DisconnectRemovesRecord ==
    [][\A hConn \in Active, eNewState \in {"ClosedByPeer", "ProblemDetectedLocally"} :
          (Lost(hConn, eNewState) /\ hConn \in DOMAIN m_mapClientData)
          => /\ hConn \notin DOMAIN m_mapClientData'
             /\ (\E i \in DOMAIN out' : out'[i].op = "EndAuthSession" /\ out'[i].arg = m_mapClientData[hConn].m_steamID)
                <=> m_mapClientData[hConn].m_eAuthState = "AUTH_VALIDATED"
             /\ \A i \in DOMAIN out' : out'[i].op = "EndAuthSession" => out'[i].arg = m_mapClientData[hConn].m_steamID]_vars

\* A validated connection was just disconnected: its session was ended and
\* its record is gone.
C6_Witness ==
    \E hConn \in Active :
        /\ hConn \notin DOMAIN m_mapClientData
        /\ CallsOf(out, "EndAuthSession", hConn) # {}
        /\ Log(hConn, "disconnected") = out[1]

\* C7 as stated: the registry loses a key only in the handling of a
\* disconnect or problem notification for that connection.
C7_OnlyDisconnectRemoves ==
    [][\A hConn \in DOMAIN m_mapClientData \ DOMAIN m_mapClientData' :
          \E eNewState \in {"ClosedByPeer", "ProblemDetectedLocally"} : Lost(hConn, eNewState)]_vars

\* C7 (as amended): the registry loses a key only in the handling of a
\* disconnect or problem notification for that connection, in the handling
\* of its Connected notification when the peer identity is invalid, or in
\* ShutdownSteam.
C7_RemovalPaths ==
    [][\/ ShutdownSteam
       \/ \A hConn \in DOMAIN m_mapClientData \ DOMAIN m_mapClientData' :
             \/ \E eNewState \in {"ClosedByPeer", "ProblemDetectedLocally"} : Lost(hConn, eNewState)
             \/ Connected(hConn, InvalidSteamID)]_vars

\* A record was just removed because its connection's identity is invalid.
C7_Witness ==
    \E hConn \in Active :
        /\ hConn \notin DOMAIN m_mapClientData
        /\ out = <<Log(hConn, "invalid remote identity"), CloseConnection(hConn, "Invalid identity")>>

\* C8: an inbound attempt on the server's listen socket is accepted when
\* fewer than MaxClients records are registered, and registered when the
\* accept succeeds; with MaxClients records registered it is closed with
\* the reason "Server full", not accepted and not registered, so that a
\* later attempt is accepted only after a record was removed.
C8_AdmissionControl ==
    [][\A hConn \in Active, acceptRes \in EResults, pollGroupOk \in BOOLEAN :
          Attempted(hConn, m_hListenSocket, acceptRes, pollGroupOk)
          => IF Cardinality(DOMAIN m_mapClientData) >= MaxClients
             THEN /\ m_mapClientData' = m_mapClientData
                  /\ CallsOf(out', "AcceptConnection", hConn) = {}
                  /\ \E i \in CallsOf(out', "CloseConnection", hConn) : out'[i].arg = "Server full"
             ELSE /\ CallsOf(out', "AcceptConnection", hConn) # {}
                  /\ acceptRes = "k_EResultOK" =>
                        /\ AuthStateOf(m_mapClientData', hConn) = "AUTH_PENDING"
                        /\ CallsOf(out', "CloseConnection", hConn) = {}]_vars

\* The registry is full and an attempt was just rejected with "Server full".
C8_Witness ==
    \E hConn \in Active :
        /\ Cardinality(DOMAIN m_mapClientData) = MaxClients
        /\ hConn \notin DOMAIN m_mapClientData
        /\ \E i \in CallsOf(out, "CloseConnection", hConn) : out[i].arg = "Server full"

\* C9: the registry never holds more than MaxClients records.
C9_NeverAboveCapacity == Cardinality(DOMAIN m_mapClientData) <= MaxClients

\* Two attempts met one free slot: one connection holds the last record
\* and the attempt of the other was just turned away.
C9_Witness ==
    \E hConn \in Active, other \in Active :
        /\ hConn # other
        /\ Cardinality(DOMAIN m_mapClientData) = MaxClients
        /\ hConn \in DOMAIN m_mapClientData
        /\ other \notin DOMAIN m_mapClientData
        /\ out = <<Log(other, "Max clients reached"), CloseConnection(other, "Server full")>>

\* The places in a handler's calls where a payload of hConn reaches the
\* application: the "Received from client" line and the HELLO_SERVER reply.
Forwards(effects, hConn) ==
    {i \in DOMAIN effects :
        \/ effects[i] = Log(hConn, "Received from client")
        \/ effects[i] = SendMessageToClient(hConn, "SERVER_SAYS_HI_CLIENT")}

\* C10: a polled payload reaches the application only when the record of
\* its connection is Validated when the message is processed.
C10_ForwardOnlyWhenValidated ==
    [][\A hConn \in Active, data \in Frames :
          (PollNetwork(hConn, data) /\ Forwards(out', hConn) # {})
          => /\ AuthStateOf(m_mapClientData, hConn) = "AUTH_VALIDATED"
             /\ AuthStateOf(m_mapClientData', hConn) = "AUTH_VALIDATED"]_vars

\* HELLO_SERVER from a validated connection was just answered.
C10_Witness ==
    \E hConn \in Active :
        /\ AuthStateOf(m_mapClientData, hConn) = "AUTH_VALIDATED"
        /\ out = <<Log(hConn, "Received from client"), SendMessageToClient(hConn, "SERVER_SAYS_HI_CLIENT")>>

\* C11: BroadcastMessage sends the message once to every connection whose
\* record is Validated when it is called, and to no other connection:
\* none that is Pending, TicketReceived or Failed, none without a record.
C11_BroadcastToValidatedOnly ==
    [][\A message \in Broadcasts :
          BroadcastMessage(message)
          => /\ \A hConn \in Conns :
                   IF AuthStateOf(m_mapClientData, hConn) = "AUTH_VALIDATED"
                   THEN Cardinality(CallsOf(out', "SendMessageToConnection", hConn)) = 1
                   ELSE CallsOf(out', "SendMessageToConnection", hConn) = {}
             /\ \A i \in DOMAIN out' :
                   /\ out'[i].op = "SendMessageToConnection"
                   /\ out'[i].arg = message
                   /\ out'[i].conn \in Conns]_vars

\* A broadcast just went to the one validated connection while another
\* connection has a record that is not validated.
C11_Witness ==
    \E hConn \in Active, other \in Conns, message \in Broadcasts :
        /\ AuthStateOf(m_mapClientData, hConn) = "AUTH_VALIDATED"
        /\ AuthStateOf(m_mapClientData, other) \in {"AUTH_TICKET_RECEIVED", "AUTH_FAILED"}
        /\ out = <<SendMessageToClient(hConn, message)>>

\* C12: a validation response for an identity none of whose records is in
\* TicketReceived leaves the registry as it is; EndAuthSession is called
\* for that identity when the response is a failure and is not called when
\* it is OK.
C12_UntrackedResponse ==
    [][\A steamID \in SteamIDs, eAuthSessionResponse \in AuthSessionResponses, ownerSteamID \in SteamIDs :
          (/\ OnValidateAuthTicketResponse(steamID, eAuthSessionResponse, ownerSteamID)
           /\ \A c \in DOMAIN m_mapClientData :
                 ~(m_mapClientData[c].m_steamID = steamID /\ m_mapClientData[c].m_eAuthState = "AUTH_TICKET_RECEIVED"))
          => /\ m_mapClientData' = m_mapClientData
             /\ IF eAuthSessionResponse = "k_EAuthSessionResponseOK"
                THEN \A i \in DOMAIN out' : out'[i].op # "EndAuthSession"
                ELSE /\ \E i \in DOMAIN out' : out'[i].op = "EndAuthSession" /\ out'[i].arg = steamID
                     /\ \A i \in DOMAIN out' : out'[i].op = "EndAuthSession" => out'[i].arg = steamID]_vars

\* A failure was just reported once more for the identity of a record that
\* is Failed already: the session was ended, the record is as it was.
C12_Witness ==
    \E hConn \in Active :
        /\ AuthStateOf(m_mapClientData, hConn) = "AUTH_FAILED"
        /\ Len(out) = 3
        /\ out[2] = EndAuthSession(0, m_mapClientData[hConn].m_steamID)

\* The places in a sequence of calls where op was called.
Calls(effects, op) == {i \in DOMAIN effects : effects[i].op = op}

\* C13: closing is idempotent.  On the server a disconnect or problem
\* notification removes the record of its connection with one transport
\* close and at most one EndAuthSession, and one more such notification
\* for the connection, which has no record then, changes nothing and calls
\* nothing.  On the client Disconnect closes the connection once and
\* drops the handle, and a Disconnect without a handle changes nothing and
\* calls nothing.
C13_ClosingIsIdempotent ==
    [][/\ \A hConn \in Active, eNewState \in {"ClosedByPeer", "ProblemDetectedLocally"} :
            Lost(hConn, eNewState)
            => IF hConn \in DOMAIN m_mapClientData
               THEN /\ hConn \notin DOMAIN m_mapClientData'
                    /\ Cardinality(CallsOf(out', "CloseConnection", hConn)) = 1
                    /\ Cardinality(Calls(out', "EndAuthSession")) <= 1
               ELSE /\ m_mapClientData' = m_mapClientData
                    /\ out' = <<>>
       /\ Disconnect
            => IF client.m_hConnection # k_HSteamNetConnection_Invalid
               THEN /\ client'.m_hConnection = k_HSteamNetConnection_Invalid
                    /\ Cardinality(Calls(clientOut', "CloseConnection")) = 1
               ELSE /\ client' = client
                    /\ clientNet' = clientNet
                    /\ clientOut' = <<>>]_vars

\* The client has closed its connection and Disconnect was just called
\* once more, and the server has no record of its connection and the last
\* notification for it called nothing.
C13_Witness ==
    /\ client.m_hConnection = k_HSteamNetConnection_Invalid
    /\ \E h \in ClientHandles : clientNet[h] = "Dead"
    /\ clientOut = <<>>
    /\ First \notin DOMAIN m_mapClientData
    /\ net[First] = NoConnection
    /\ out = <<>>

\* The steps of an AuthState: staying, Pending to TicketReceived,
\* TicketReceived to Validated or to Failed.
Forward ==
    {<<a, a>> : a \in {"AUTH_PENDING", "AUTH_TICKET_RECEIVED", "AUTH_VALIDATED", "AUTH_FAILED"}}
    \cup {<<"AUTH_PENDING", "AUTH_TICKET_RECEIVED">>,
          <<"AUTH_TICKET_RECEIVED", "AUTH_VALIDATED">>,
          <<"AUTH_TICKET_RECEIVED", "AUTH_FAILED">>}

\* C14: every record has one of the four AuthStates, and while it is in the
\* registry its AuthState only stays or moves forward: Pending to
\* TicketReceived, TicketReceived to Validated or to Failed.  No record
\* returns to Pending, and Validated and Failed are left only by removal.
C14_AuthStateMovesForward ==
    [][/\ \A hConn \in DOMAIN m_mapClientData' :
            m_mapClientData'[hConn].m_eAuthState
                \in {"AUTH_PENDING", "AUTH_TICKET_RECEIVED", "AUTH_VALIDATED", "AUTH_FAILED"}
       /\ \A hConn \in DOMAIN m_mapClientData \cap DOMAIN m_mapClientData' :
            <<m_mapClientData[hConn].m_eAuthState, m_mapClientData'[hConn].m_eAuthState>> \in Forward
       /\ \A hConn \in DOMAIN m_mapClientData' \ DOMAIN m_mapClientData :
            m_mapClientData'[hConn].m_eAuthState = "AUTH_PENDING"]_vars

\* A ticket frame was just ignored for a Validated record, which stays Validated.
C14_Witness ==
    \E hConn \in Active :
        /\ authTrace[hConn] = <<"AUTH_PENDING", "AUTH_TICKET_RECEIVED", "AUTH_VALIDATED">>
        /\ AuthStateOf(m_mapClientData, hConn) = "AUTH_VALIDATED"
        /\ out = <<Log(hConn, "Received from client")>>

\* The records waiting for the validation of identity steamID.
Validating(steamID) ==
    {c \in DOMAIN m_mapClientData :
        m_mapClientData[c].m_steamID = steamID /\ m_mapClientData[c].m_eAuthState = "AUTH_TICKET_RECEIVED"}

\* C15 as stated: every Validated record has a valid peer identity, and at
\* most one record per identity is in TicketReceived.
C15_OneValidationPerIdentity ==
    /\ \A hConn \in DOMAIN m_mapClientData :
          m_mapClientData[hConn].m_eAuthState = "AUTH_VALIDATED" => IsValid(m_mapClientData[hConn].m_steamID)
    /\ \A steamID \in Identities : Cardinality(Validating(steamID)) <= 1

\* C16: the two threads are never both at a statement that reads or writes
\* the registry, and a thread at such a statement holds m_mutexClientData.
C16_RegistryAccessSerialized ==
    /\ \A t \in Threads : pc[t] \in RegistryAccess => m_mutexClientData = t
    /\ \A t1 \in Threads, t2 \in Threads :
          (t1 # t2 /\ pc[t1] \in RegistryAccess) => pc[t2] \notin RegistryAccess

\* The main thread is inside the loop of BroadcastMessage while the poll
\* thread waits for the lock with a message to process.
C16_Witness ==
    /\ pc["main"] = "broadcast_iterate"
    /\ pc["poll"] = "poll_lock"
    /\ batch > 0
    /\ m_mutexClientData = "main"

\* C17 as stated: no thread is inside SendMessageToClient while it holds
\* m_mutexClientData.
C17_NoSendUnderLock ==
    \A t \in Threads : pc[t] \in SendLocations => m_mutexClientData # t

\* A connection whose record is Pending.
PendingConn == CHOOSE c \in Background : m_mapClientData[c].m_eAuthState = "AUTH_PENDING"

\* C18: for every ticket of L = 1 to 1024 bytes the frame the client
\* builds has 4 + L bytes, its first four bytes are L most significant byte first, reading back what
\* ManualHostToNet32 wrote gives L, and the server, processing the frame
\* for a Pending record, accepts it and stores the L ticket bytes
\* (for L = 10 the header is 00 00 00 0A and the frame has 14 bytes).
C18_TicketFramingRoundTrip ==
    LET L == client.m_unAuthTicketSize
        frame == TicketMessage(client)
        r == ProcessMessageFromClient(PendingConn, frame)
    IN  L \in 1 .. m_unAuthTicketBufferSize =>
        /\ Len(frame) = 4 + L
        /\ \A i \in 1 .. 4 : frame[i] \in 0 .. 255
        /\ DeclaredLength(frame) = L
        /\ ManualNetToHost32(ManualHostToNet32(L)) = L
        /\ L = 10 => SubSeq(frame, 1, 4) = <<0, 0, 0, 10>> /\ Len(frame) = 14
        /\ r.accepted
        /\ r.map[PendingConn].m_eAuthState = "AUTH_TICKET_RECEIVED"
        /\ r.map[PendingConn].m_authTicketData = client.m_authTicketBuffer
        /\ Len(r.map[PendingConn].m_authTicketData) = L

\* The client just answered the greeting with the frame of its 10-byte ticket.
C18_Witness ==
    /\ client.m_unAuthTicketSize = 10
    /\ Len(clientOut) = 3
    /\ clientOut[2].op = "SendMessageToConnection"
    /\ Len(clientOut[2].arg) = 14
    /\ clientOut[2].arg = <<0, 0, 0, 10>> \o client.m_authTicketBuffer

\* message begins with prefix.
HasPrefix(message, prefix) ==
    Len(message) >= Len(prefix) /\ \A i \in 1 .. Len(prefix) : message[i] = prefix[i]

\* C19: a message polled by the connected client that begins with WELCOME
\* and not with AUTH_SUCCESSFUL makes it send its ticket in one frame, the
\* size in four bytes and the ticket bytes, and changes none of its
\* members; one that begins with AUTH_SUCCESSFUL sets m_bAuthenticated and
\* sends nothing; any other changes no member and sends nothing.
\* m_bAuthenticated becomes true in no other step.
C19_ClientHandshake ==
    [][/\ \A message \in ClientMessages, res \in EResults :
            (/\ PollIncomingMessages(message, FALSE, res)
             /\ client.m_bConnected
             /\ client.m_hConnection # k_HSteamNetConnection_Invalid)
            => IF HasPrefix(message, AUTH_SUCCESSFUL)
               THEN /\ client' = [client EXCEPT !.m_bAuthenticated = TRUE]
                    /\ Calls(clientOut', "SendMessageToConnection") = {}
               ELSE IF HasPrefix(message, WELCOME)
               THEN /\ client' = client
                    /\ Cardinality(Calls(clientOut', "SendMessageToConnection")) = 1
                    /\ \A i \in Calls(clientOut', "SendMessageToConnection") :
                          /\ clientOut'[i].conn = client.m_hConnection
                          /\ Len(clientOut'[i].arg) = 4 + client.m_unAuthTicketSize
                          /\ DeclaredLength(clientOut'[i].arg) = client.m_unAuthTicketSize
                          /\ SubSeq(clientOut'[i].arg, 5, Len(clientOut'[i].arg)) = client.m_authTicketBuffer
               ELSE /\ client' = client
                    /\ Calls(clientOut', "SendMessageToConnection") = {}
       /\ (client'.m_bAuthenticated /\ ~client.m_bAuthenticated)
            => \E message \in ClientMessages, res \in EResults :
                  /\ HasPrefix(message, AUTH_SUCCESSFUL)
                  /\ PollIncomingMessages(message, FALSE, res)]_vars

\* The connected client, not authenticated, just answered the greeting
\* with its ticket frame.
C19_Witness ==
    /\ client.m_bConnected
    /\ ~client.m_bAuthenticated
    /\ Len(clientOut) = 3
    /\ clientOut[1] = Log(0, "Step 3: Received WELCOME")
    /\ clientOut[2].op = "SendMessageToConnection"

\* The client has no connection.
Closed(members) ==
    /\ members.m_hConnection = k_HSteamNetConnection_Invalid
    /\ ~members.m_bConnected
    /\ ~members.m_bAttemptingConnection

\* C20 as stated: a closed or problem notification for the client's
\* connection leaves the client without a connection and its ticket
\* cancelled with the identity service.
C20_ClosedAndTicketCancelled ==
    [][\A hConn \in ClientHandles, eState \in {"ClosedByPeer", "ProblemDetectedLocally"} :
          (Client_OnSteamNetConnectionStatusChanged(hConn, eState) /\ hConn = client.m_hConnection)
          => /\ Closed(client')
             /\ client'.m_hAuthTicket = k_HAuthTicketInvalid
             /\ Calls(clientOut', "CancelAuthTicket") # {}]_vars

\* C20 (as amended): a closed or problem notification for the client's
\* connection leaves the client without a connection, the connection
\* closed at the transport, and the ticket as it was: the ticket handle
\* changes, and CancelAuthTicket is called, only in ShutdownSteam.
C20_ClosedTicketKept ==
    [][/\ \A hConn \in ClientHandles, eState \in {"ClosedByPeer", "ProblemDetectedLocally"} :
            (Client_OnSteamNetConnectionStatusChanged(hConn, eState) /\ hConn = client.m_hConnection)
            => /\ Closed(client')
               /\ Cardinality(Calls(clientOut', "CloseConnection")) = 1
               /\ client'.m_hAuthTicket = client.m_hAuthTicket
               /\ Calls(clientOut', "CancelAuthTicket") = {}
       /\ (client'.m_hAuthTicket # client.m_hAuthTicket \/ Calls(clientOut', "CancelAuthTicket") # {})
            => /\ Client_ShutdownSteam
               /\ client'.m_hAuthTicket = k_HAuthTicketInvalid
               /\ \E i \in Calls(clientOut', "CancelAuthTicket") : clientOut'[i].arg = client.m_hAuthTicket]_vars

\* The authenticated client was just told that its connection is closed:
\* it has no connection and still holds its ticket.
C20_Witness ==
    /\ Closed(client)
    /\ client.m_bAuthenticated
    /\ client.m_hAuthTicket # k_HAuthTicketInvalid
    /\ Len(clientOut) = 2
    /\ clientOut[1].arg = "Connection closed or failed"
    /\ clientOut[2].op = "CloseConnection"

\* C21: a Connect call that gets past the test of the client's state and
\* whose address does not parse, or for which ConnectByIPAddress returns
\* no connection, returns false in the call itself and leaves the client
\* not connected, not attempting and without a connection handle; nothing
\* is asked of the transport for an address that does not parse.
C21_ConnectFailsImmediately ==
    [][\A parsed \in BOOLEAN, hNew \in ClientHandles \cup {k_HSteamNetConnection_Invalid}, serverPort \in Ports :
          (/\ Connect(parsed, hNew, serverPort)
           /\ client.m_pInterface /\ ~client.m_bConnected /\ ~client.m_bAttemptingConnection
           /\ (~parsed \/ hNew = k_HSteamNetConnection_Invalid))
          => /\ ~ConnectResult(client, parsed, hNew, serverPort).result
             /\ Closed(client')
             /\ clientNet' = clientNet
             /\ ~parsed => Calls(clientOut', "ConnectByIPAddress") = {}]_vars

\* The transport just refused to create the connection: Connect logged the
\* failure and the client has no connection.
C21_Witness ==
    /\ Len(clientOut) = 2
    /\ clientOut[1].op = "ConnectByIPAddress"
    /\ clientOut[1].conn = k_HSteamNetConnection_Invalid
    /\ clientOut[2] = Log(0, "Failed to initiate connection")
    /\ Closed(client)

\* The client holds a ticket: a valid handle and a size that is not 0.
HoldsTicket(members) ==
    members.m_hAuthTicket # k_HAuthTicketInvalid /\ members.m_unAuthTicketSize > 0

\* C22: a client without a ticket (InitializeSteam failed, or ShutdownSteam
\* cancelled the ticket) is not connected and its last operation sent
\* nothing, whatever was called on it; a connected client, and a client
\* that just sent something, holds a ticket and is running.
C22_NoTicketNoHandshake ==
    /\ ~HoldsTicket(client)
          => ~client.m_bConnected /\ Calls(clientOut, "SendMessageToConnection") = {}
    /\ (client.m_bConnected \/ Calls(clientOut, "SendMessageToConnection") # {})
          => HoldsTicket(client) /\ client.m_bRunning

\* InitializeSteam failed for want of a ticket, Connect was called all the
\* same and the transport is connecting: the client waits, not connected.
C22_Witness ==
    /\ ~client.m_bRunning
    /\ client.m_hAuthTicket = k_HAuthTicketInvalid
    /\ client.m_bAttemptingConnection
    /\ \E h \in ClientHandles : clientNet[h] = "Connecting" /\ client.m_hConnection = h

\* C23: a polled message for a connection that has no record changes the
\* registry in nothing and makes the server call nothing (it only logs):
\* the message is not read as a ticket frame and not answered.
C23_UnknownConnectionDropped ==
    [][\A hConn \in Active :
          (hConn \notin DOMAIN m_mapClientData /\ \E data \in Frames : PollNetwork(hConn, data))
          => /\ m_mapClientData' = m_mapClientData
             /\ \A i \in DOMAIN out' : out'[i].op = "spdlog"
             /\ ticketFrames'[hConn] = 0]_vars

\* A message arrived for a connection whose record is gone: the server
\* logged it and the connection has no record.
C23_Witness ==
    \E hConn \in Active :
        /\ out = <<Log(hConn, "unknown or disconnected connection")>>
        /\ hConn \notin DOMAIN m_mapClientData
        /\ net[hConn] = NoConnection

\* d is, for the server and for the transport, after the step what it was before.
Untouched(d) ==
    /\ d \in DOMAIN m_mapClientData' <=> d \in DOMAIN m_mapClientData
    /\ d \in DOMAIN m_mapClientData => m_mapClientData'[d] = m_mapClientData[d]
    /\ net'[d] = net[d]
    /\ d \in pollGroup' <=> d \in pollGroup

\* The connections the calls of a handler are about.
CalledFor(effects) == {effects[i].conn : i \in {j \in DOMAIN effects : IsCall(effects[j])}} \ {0}

\* C24: a step of the server other than a broadcast or the shutdown is
\* about one connection: the record, the transport state and the
\* poll-group membership of every other connection are what they were, so
\* every event the others could handle before they can handle after, and
\* no call is made for another connection; the server keeps running.
C24_ErrorsConfinedToOneConnection ==
    [][\/ /\ Cardinality({d \in Conns : ~Untouched(d)} \cup CalledFor(out')) <= 1
          /\ m_bRunning' = m_bRunning
       \/ Say
       \/ ShutdownSteam]_vars

\* The validation of one connection failed and the server closed it,
\* while Peer still waits for its own validation, its ticket stored.
C24_Witness ==
    \E hConn \in Active :
        /\ hConn \in DOMAIN m_mapClientData
        /\ m_mapClientData[hConn].m_eAuthState = "AUTH_FAILED"
        /\ CallsOf(out, "CloseConnection", hConn) # {}
        /\ m_mapClientData[Peer] = PeerData
        /\ net[Peer].m_eState = "Connected"

\* C25 as stated: a record whose validation has been handled, validated or
\* failed, holds no ticket bytes.
C25_TicketDiscardedAfterValidation ==
    \A hConn \in Active :
        (hConn \in DOMAIN m_mapClientData
            /\ m_mapClientData[hConn].m_eAuthState \in {"AUTH_VALIDATED", "AUTH_FAILED"})
        => m_mapClientData[hConn].m_authTicketData = <<>>

\* The places in a handler's calls where the greeting is sent to hConn.
Greetings(effects, hConn) ==
    {i \in CallsOf(effects, "SendMessageToConnection", hConn) : effects[i].arg = "WELCOME_SEND_AUTH_TICKET"}

\* C26: a step in which the server sends the greeting to a connection is
\* the Connected notification of a connection that was accepted on the
\* server's listen socket and has a record, created as Pending, and it
\* leaves in the record the valid identity the transport reported; no
\* greeting goes to a connection without record.
C26_GreetingAfterAcceptAndIdentity ==
    [][\A hConn \in Conns :
          Greetings(out', hConn) # {}
          => /\ hConn \in DOMAIN m_mapClientData
             /\ net[hConn] = [m_eState |-> "Connecting", m_hListenSocket |-> m_hListenSocket]
             /\ net'[hConn].m_eState = "Connected"
             /\ hConn \in Active => authTrace[hConn][1] = "AUTH_PENDING"
             /\ hConn \in DOMAIN m_mapClientData'
             /\ m_mapClientData'[hConn].m_steamID # InvalidSteamID
             /\ m_mapClientData'[hConn].m_steamID \in Identities]_vars

\* The greeting was just sent to a connection whose record is Pending and
\* carries a valid identity.
C26_Witness ==
    \E hConn \in Active :
        /\ Greetings(out, hConn) # {}
        /\ m_mapClientData[hConn].m_eAuthState = "AUTH_PENDING"
        /\ m_mapClientData[hConn].m_steamID \in Identities

\* C27: after an authentication failure (the record set to AUTH_FAILED and
\* the connection closed by the server) the record is eventually removed
\* from the registry: a closed connection does not stay registered, marked
\* failed.
C27_FailedRecordEventuallyRemoved ==
    (/\ First \in DOMAIN m_mapClientData
     /\ m_mapClientData[First].m_eAuthState = "AUTH_FAILED"
     /\ net[First] = NoConnection)
        ~> (First \notin DOMAIN m_mapClientData)

\* The client and the server completed the handshake.
Authenticated ==
    /\ client.m_bAuthenticated
    /\ First \in DOMAIN m_mapClientData
    /\ m_mapClientData[First].m_eAuthState = "AUTH_VALIDATED"

\* The identity service answered something else than OK for the client.
AnsweredNotOK ==
    /\ First \in DOMAIN m_mapClientData
    /\ m_mapClientData[First].m_eAuthState = "AUTH_FAILED"

\* C28: with a transport that delivers every message and notification and
\* an identity service that answers OK, a client that initialized and
\* connected (and is not shut down by its user) is eventually authenticated
\* while its record at the server is AUTH_VALIDATED.
C28_HandshakeCompletes ==
    (client.m_bRunning /\ client.m_bConnected)
        ~> (Authenticated \/ AnsweredNotOK \/ ~client.m_bRunning)

\* C29: with the default constants the client connects to the port the
\* server listens on: a connection client_main asks for with its
\* SERVER_PORT is to a port the server's listen socket is bound to.
C29_DefaultClientReachesDefaultServer ==
    \A i \in DOMAIN clientOut :
        (clientOut[i].op = "ConnectByIPAddress" /\ clientOut[i].m_port = SERVER_PORT)
            => Listens(clientOut[i].m_port)


\* C30: a validation callback with response OK whose owner identity is not
\* the validated identity, for an identity with a record in TicketReceived,
\* makes one such record Validated, changes nothing else in the registry,
\* sends that connection one message that begins with AUTH_SUCCESSFUL and
\* closes nothing.
C30_OwnerMismatchIsSuccess ==
    [][\A steamID \in SteamIDs, ownerSteamID \in SteamIDs :
          (/\ steamID # ownerSteamID
           /\ Found(steamID) # {}
           /\ OnValidateAuthTicketResponse(steamID, "k_EAuthSessionResponseOK", ownerSteamID))
          => \E hFoundConn \in Found(steamID) :
                /\ m_mapClientData' = [m_mapClientData EXCEPT ![hFoundConn].m_eAuthState = "AUTH_VALIDATED"]
                /\ Cardinality(SuccessSends(out', hFoundConn)) = 1
                /\ Calls(out', "SendMessageToConnection") = SuccessSends(out', hFoundConn)
                /\ Calls(out', "CloseConnection") = {}
                /\ Calls(out', "EndAuthSession") = {}]_vars

\* A record was just validated by a callback whose owner identity differs.
C30_Witness ==
    \E hConn \in Active :
        /\ hConn \in DOMAIN m_mapClientData
        /\ m_mapClientData[hConn].m_eAuthState = "AUTH_VALIDATED"
        /\ out = <<Log(hConn, "Auth validated but OwnerSteamID differs"),
                   SendMessageToClient(hConn, "AUTH_SUCCESSFUL_WELCOME_PLAYER (owner mismatch noted)")>>

\* The step takes the record of hConn out of AUTH_PENDING.
LeavesPending(hConn) ==
    /\ AuthStateOf(m_mapClientData, hConn) = "AUTH_PENDING"
    /\ AuthStateOf(m_mapClientData', hConn) # "AUTH_PENDING"

\* The step handles a well-formed ticket frame of hConn, or a disconnect or
\* problem notification for it.
TicketOrDisconnect(hConn) ==
    \/ \E data \in Frames : WellFormed(data) /\ PollNetwork(hConn, data)
    \/ \E eNewState \in {"ClosedByPeer", "ProblemDetectedLocally"} : Lost(hConn, eNewState)

\* C31 as stated: a record that is AUTH_PENDING stays AUTH_PENDING, in the
\* registry, through every step but the handling of a well-formed ticket
\* frame of its connection or of a disconnect or problem notification for it.
C31_OnlyDisconnectEndsPending ==
    [][\A hConn \in Active : LeavesPending(hConn) => TicketOrDisconnect(hConn)]_vars

\* C31 (as amended): a record that is AUTH_PENDING stays AUTH_PENDING, in
\* the registry and counted by the capacity test, through every step but
\* the handling of a well-formed ticket frame of its connection, of a
\* disconnect or problem notification for it, of its Connected
\* notification when the peer identity is invalid, or ShutdownSteam: no
\* step of the server ends the wait for a ticket by itself.
C31_PendingUntilEvent ==
    [][\/ ShutdownSteam
       \/ \A hConn \in Active :
             LeavesPending(hConn) => (TicketOrDisconnect(hConn) \/ Connected(hConn, InvalidSteamID))]_vars

\* A connected client has sent a malformed frame and its record is still
\* AUTH_PENDING, holding the last slot of the registry.
C31_Witness ==
    \E hConn \in Active :
        /\ AuthStateOf(m_mapClientData, hConn) = "AUTH_PENDING"
        /\ IsValid(m_mapClientData[hConn].m_steamID)
        /\ net[hConn].m_eState = "Connected"
        /\ out = <<Log(hConn, "malformed auth ticket message")>>
        /\ AtCapacity(m_mapClientData)

\* Where a thread calls std::mutex::lock.
LockLocations == {"status_lock", "validate_lock", "broadcast_lock", "shutdown_lock", "poll_lock"}

\* C32: no operation of the server blocks for ever.  No thread calls
\* std::mutex::lock on m_mutexClientData while it holds it; a thread that
\* waits for the mutex gets it; a thread that holds the mutex releases it;
\* and once m_bRunning is false the poll thread exits, the join returns
\* and ShutdownSteam runs to its end.
C32_NoOperationBlocksForever ==
    /\ [](\A t \in Threads : pc[t] \in LockLocations => m_mutexClientData # t)
    /\ \A t \in Threads : (pc[t] \in LockLocations) ~> (m_mutexClientData = t)
    /\ \A t \in Threads : (m_mutexClientData = t) ~> (m_mutexClientData # t)
    /\ (~m_bRunning) ~> (pc["poll"] = "exited" /\ pc["main"] = "done")

\* ShutdownSteam has joined the poll thread, which left a batch behind it
\* or not, and has run to its end.
C32_Witness ==
    /\ ~m_bRunning
    /\ pc["poll"] = "exited"
    /\ pc["main"] = "done"
    /\ m_mutexClientData = "free"

\* AcceptConnection returned something else than k_EResultOK for hConn in
\* the handler that made the calls effects.
AcceptFailed(effects, hConn) ==
    \E i \in DOMAIN effects : effects[i] = Log(hConn, "Failed to accept connection")

\* C33: when AcceptConnection does not return k_EResultOK for an inbound
\* attempt, the server closes that connection, registers no record for
\* it, does not add it to the poll group, and leaves the registry and
\* every record in it as they were.
C33_AcceptFailureLeavesNoRecord ==
    [][\A hConn \in Active :
          AcceptFailed(out', hConn) =>
              /\ m_mapClientData' = m_mapClientData
              /\ hConn \notin DOMAIN m_mapClientData'
              /\ Cardinality(CallsOf(out', "CloseConnection", hConn)) = 1
              /\ CallsOf(out', "SetConnectionPollGroup", hConn) = {}
              /\ CalledFor(out') = {hConn}
              /\ net'[hConn] = NoConnection
              /\ hConn \notin pollGroup']_vars

\* An attempt whose accept failed was closed while the registry has a free
\* slot and Peer waits for its validation.
C33_Witness ==
    \E hConn \in Active :
        /\ out = <<AcceptConnection(hConn), Log(hConn, "Failed to accept connection"),
                   CloseConnection(hConn, "Accept failed")>>
        /\ hConn \notin DOMAIN m_mapClientData
        /\ ~AtCapacity(m_mapClientData)
        /\ m_mapClientData[Peer] = PeerData
        /\ net[hConn] = NoConnection

\* C34: on the client IsAuthenticated() implies IsConnected(): a client
\* that is not connected (closed by a notification, by Disconnect or by a
\* failed poll, or connecting again) does not report itself authenticated.
C34_AuthenticatedImpliesConnected == client.m_bAuthenticated => client.m_bConnected

\* C35: a client without a connection handle (after Disconnect, or after a
\* close notification cleared the handle) becomes connected or attempting
\* again, or holds a handle again, only by a successful call of Connect:
\* a queued notification for the old or any other handle does not change it.
C35_StaleNotificationIgnored ==
    [][(/\ client.m_hConnection = k_HSteamNetConnection_Invalid
        /\ \/ client'.m_bConnected
           \/ client'.m_bAttemptingConnection
           \/ client'.m_hConnection # k_HSteamNetConnection_Invalid)
          => \E hNew \in ClientHandles, serverPort \in Ports : Connect(TRUE, hNew, serverPort)]_vars

\* The records that are validated for steamID in map.
ValidatedFor(map, steamID) ==
    {c \in DOMAIN map : map[c].m_steamID = steamID /\ map[c].m_eAuthState = "AUTH_VALIDATED"}

\* C36: while a record is AUTH_VALIDATED the session of its identity is
\* live: a handler that calls EndAuthSession for an identity leaves no
\* record validated for that identity, whatever validation callbacks
\* arrive, a failure for an identity that is validated already included.
C36_ValidatedSessionLive ==
    [][\A i \in DOMAIN out' :
          out'[i].op = "EndAuthSession" => ValidatedFor(m_mapClientData', out'[i].arg) = {}]_vars

\* C37: no record is AUTH_TICKET_RECEIVED or AUTH_VALIDATED with an
\* invalid m_steamID: the identity of the Connected notification is
\* recorded before a ticket frame is taken.
C37_IdentityBeforeTicket ==
    \A c \in DOMAIN m_mapClientData :
        m_mapClientData[c].m_eAuthState \in {"AUTH_TICKET_RECEIVED", "AUTH_VALIDATED"}
            => IsValid(m_mapClientData[c].m_steamID)

\* C38: every connection that has a record is in the poll group.
C38_RegisteredIsPolled == DOMAIN m_mapClientData \subseteq pollGroup

\* C39: ShutdownSteam leaves the registry empty, closes, once, every
\* connection that had a record and no other, and calls EndAuthSession,
\* once and for the record's identity, for every record that was
\* AUTH_VALIDATED and for no other; once the server is shut down a further
\* ShutdownSteam (or the destructor) makes no call and changes nothing.
C39_ShutdownClosesEverything ==
    [][~m_bRunning' =>
          IF m_bRunning
          THEN /\ DOMAIN m_mapClientData' = {}
               /\ \A c \in Conns :
                     /\ Cardinality(CallsOf(out', "CloseConnection", c))
                            = (IF c \in DOMAIN m_mapClientData THEN 1 ELSE 0)
                     /\ Cardinality(CallsOf(out', "EndAuthSession", c))
                            = (IF AuthStateOf(m_mapClientData, c) = "AUTH_VALIDATED" THEN 1 ELSE 0)
                     /\ c \in DOMAIN m_mapClientData => net'[c] = NoConnection
               /\ \A i \in DOMAIN out' :
                     out'[i].op = "EndAuthSession" => out'[i].arg = m_mapClientData[out'[i].conn].m_steamID
               /\ CalledFor(out') = DOMAIN m_mapClientData
          ELSE /\ \A i \in DOMAIN out' : ~IsCall(out'[i])
               /\ m_mapClientData' = m_mapClientData
               /\ net' = net]_vars

\* The server was just shut down with a validated record and with records
\* that were not: the session of the first was ended, all were closed.
C39_Witness ==
    /\ ~m_bRunning
    /\ DOMAIN m_mapClientData = {}
    /\ \E c \in Active : CallsOf(out, "EndAuthSession", c) # {} /\ CallsOf(out, "CloseConnection", c) # {}
    /\ CallsOf(out, "EndAuthSession", Peer) = {}
    /\ CallsOf(out, "CloseConnection", Peer) # {}

\* C40: when a registered connection reaches Connected with an invalid
\* peer identity the server closes it, removes its record and sends it
\* nothing; the record of such a connection has never been
\* AUTH_TICKET_RECEIVED or AUTH_VALIDATED.
C40_InvalidIdentityNeverProceeds ==
    [][\A hConn \in Active :
          (Connected(hConn, InvalidSteamID) /\ hConn \in DOMAIN m_mapClientData)
              => /\ m_mapClientData' = Erase(m_mapClientData, hConn)
                 /\ Cardinality(CallsOf(out', "CloseConnection", hConn)) = 1
                 /\ CallsOf(out', "SendMessageToConnection", hConn) = {}
                 /\ net'[hConn] = NoConnection
                 /\ \A i \in DOMAIN authTrace[hConn] :
                       authTrace[hConn][i] \notin {"AUTH_TICKET_RECEIVED", "AUTH_VALIDATED"}]_vars

====
